---- MODULE Spec2Model ----
(***************************************************************************)
(* Sidecar process orchestration of the desktop application: the four      *)
(* managed-process registries (engine, orchestrator daemon, relay server,  *)
(* router), the commands that start, stop and snapshot them, the spawned   *)
(* processes with their event channels, and the output-draining tasks.     *)
(*                                                                         *)
(* Commands declared as plain `fn` run one at a time on the main thread;   *)
(* the draining tasks run on the async runtime and interleave with them.   *)
(* A draining task takes the registry lock with try_lock, so an event      *)
(* that arrives while a command holds the lock is not applied.             *)
(*                                                                         *)
(* The router shares no lock, registry or process with the engine, the     *)
(* daemon and the relay server, so the two sides are explored apart:       *)
(*   Spec        the engine, the daemon and the relay server: engine_start,*)
(*               engine_stop, engine_info, dowhat_server_info;             *)
(*   SpecRouter  the router, whose processes also write output chunks;     *)
(*   SpecSink    one registry at a time under arbitrary sequences of       *)
(*               start, process event, stop and snapshot;                  *)
(*   SpecWait    the health-wait loop of an Orchestrator start and the     *)
(*               timeout it is given;                                      *)
(*   SpecRelaunch  Spec across relaunches of the application, which start  *)
(*               with default registries while processes and files stay;   *)
(*   SpecPoison  Spec with a draining task that panics while it holds a    *)
(*               registry lock.                                            *)
(*                                                                         *)
(* The commands and functions that touch no registry are explored one call *)
(* at a time, the call in flight being the variable `task`:                *)
(*   SpecName    derive_orchestrator_container_name;                       *)
(*   SpecDocker  run_docker_command_detailed and the docker candidates;    *)
(*   SpecCleanup sandbox_cleanup_openwork_containers;                      *)
(*   SpecSandbox orchestrator_start_detached and its progress events;      *)
(*   SpecBunEnv  sanitize_dns_result_order_args;                           *)
(*   SpecSpawn   the argument lists and environments of the children, and  *)
(*               the order of the allocations and spawns of a start;       *)
(*   SpecResolve resolve_engine_path and the locations it looks in;        *)
(*   SpecAppend  the append of a chunk to an output buffer;                *)
(*   SpecTimeout run_local_command_with_timeout and its reader threads;    *)
(*   SpecTimers  the clock of the readiness wait of a sandbox start;       *)
(*   SpecLocks   the lock operations of the commands and draining tasks.   *)
(***************************************************************************)
EXTENDS Integers, Sequences, FiniteSets, TLC

(***************************************************************************)
(* Bounds of the model.                                                    *)
(***************************************************************************)
\* processes spawned in one behaviour of Spec
MaxProcs == 3
\* router processes spawned in one behaviour of SpecRouter
MaxRouterProcs == 2
\* output chunks the router processes write in one behaviour of SpecRouter
MaxEmit == 2
\* the character budget of an output buffer; the call sites pass 8000, the
\* model scales it down so that truncation happens within MaxEmit chunks
OutputCap == 2

(***************************************************************************)
(* Option<T>: None is the empty sequence, Some(x) the one-element one.     *)
(***************************************************************************)
None == <<>>
Some(x) == <<x>>
IsSome(o) == o # <<>>
Unwrap(o) == o[1]
\* Option<String>::as_deref().unwrap_or_default()
UnwrapOrDefault(o) == IF IsSome(o) THEN o[1] ELSE <<>>

(***************************************************************************)
(* Text.  A string is a sequence of characters; a character has a UTF-8    *)
(* width in bytes.                                                         *)
(***************************************************************************)
\* "w" stands for a character outside ASCII
Utf8Width(c) == IF c = "w" THEN 3 ELSE 1

RECURSIVE ByteLen(_)
\* str::len(): the length in bytes
ByteLen(s) == IF s = <<>> THEN 0 ELSE Utf8Width(Head(s)) + ByteLen(Tail(s))

\* str::chars().count()
CharCount(s) == Len(s)

\* usize arithmetic wraps in a release build (with overflow checks the
\* subtraction panics instead and the buffer stays as it was); the modulus
\* only has to exceed every length of the model
UsizeModulus == 2 ^ 20
WrappingSub(a, b) == (a - b + UsizeModulus) % UsizeModulus

\* Iterator::skip(n).collect()
SkipChars(s, n) == IF n >= Len(s) THEN <<>> ELSE SubSeq(s, n + 1, Len(s))

\* a mutant of truncate_output: never truncates
truncate_output_unbounded(input, max_chars) == input

truncate_output(input, max_chars) ==
    IF ByteLen(input) <= max_chars THEN input
    ELSE SkipChars(input, WrappingSub(CharCount(input), max_chars))

\* state.last_stdout = Some(truncate_output(&(old + chunk), 8000))
AppendOutput(buf, chunk) ==
    Some(truncate_output(UnwrapOrDefault(buf) \o chunk, OutputCap))

IsSuffix(s, t) ==
    /\ Len(s) <= Len(t)
    /\ SubSeq(t, Len(t) - Len(s) + 1, Len(t)) = s

(***************************************************************************)
(* The registries.                                                         *)
(***************************************************************************)
Registries == {"engine", "orchestrator", "openwork", "router"}

\* #[derive(Default)] EngineState
EngineState_default ==
    [runtime |-> "Direct", child |-> None, child_exited |-> FALSE,
     project_dir |-> None, hostname |-> None, port |-> None,
     base_url |-> None, opencode_username |-> None,
     opencode_password |-> None, last_stdout |-> None, last_stderr |-> None]

\* #[derive(Default)] OrchestratorState
OrchestratorState_default ==
    [child |-> None, child_exited |-> FALSE, data_dir |-> None,
     last_stdout |-> None, last_stderr |-> None]

\* #[derive(Default)] OpenworkServerState
OpenworkServerState_default ==
    [child |-> None, child_exited |-> FALSE, host |-> None, port |-> None,
     base_url |-> None, connect_url |-> None, mdns_url |-> None,
     lan_url |-> None, client_token |-> None, host_token |-> None,
     last_stdout |-> None, last_stderr |-> None]

\* #[derive(Default)] OpenCodeRouterState
OpenCodeRouterState_default ==
    [child |-> None, child_exited |-> FALSE, version |-> None,
     workspace_path |-> None, opencode_url |-> None, health_port |-> None,
     last_stdout |-> None, last_stderr |-> None]

(***************************************************************************)
(* stop_locked: the new registry state.  The kill of the held child and    *)
(* the removal of the auth snapshot are applied by the calling action.     *)
(***************************************************************************)
\* a mutant of stop_locked: latches exited only when a child was held
EngineManager_stop_locked_latch_if_child(state) ==
    [EngineState_default EXCEPT !.child_exited = IsSome(state.child)]

\* a mutant of stop_locked: keeps the credentials of the session
EngineManager_stop_locked_keeps_credentials(state) ==
    [EngineState_default EXCEPT !.child_exited = TRUE,
                                !.opencode_username = state.opencode_username,
                                !.opencode_password = state.opencode_password]

EngineManager_stop_locked(state) ==
    [state EXCEPT !.child = None, !.child_exited = TRUE, !.runtime = "Direct",
                  !.base_url = None, !.project_dir = None, !.hostname = None,
                  !.port = None, !.opencode_username = None,
                  !.opencode_password = None, !.last_stdout = None,
                  !.last_stderr = None]

OrchestratorManager_stop_locked(state) ==
    [state EXCEPT !.child = None, !.child_exited = TRUE, !.data_dir = None,
                  !.last_stdout = None, !.last_stderr = None]

\* a mutant of stop_locked: resets the fields and keeps the handle
OpenworkServerManager_stop_locked_keeps_child(state) ==
    [OpenworkServerState_default EXCEPT !.child = state.child,
                                        !.child_exited = TRUE]

OpenworkServerManager_stop_locked(state) ==
    [state EXCEPT !.child = None, !.child_exited = TRUE, !.host = None,
                  !.port = None, !.base_url = None, !.connect_url = None,
                  !.mdns_url = None, !.lan_url = None, !.client_token = None,
                  !.host_token = None, !.last_stdout = None,
                  !.last_stderr = None]

OpenCodeRouterManager_stop_locked(state) ==
    [state EXCEPT !.child = None, !.child_exited = TRUE, !.version = None,
                  !.workspace_path = None, !.opencode_url = None,
                  !.health_port = None, !.last_stdout = None,
                  !.last_stderr = None]

(***************************************************************************)
(* snapshot_locked: the registry state after the call and the (running,    *)
(* pid) pair it reports.                                                   *)
(***************************************************************************)
\* a mutant of SnapshotRunning: ignores the exited latch
SnapshotRunning_ignores_latch(state) ==
    IF ~IsSome(state.child) THEN [state |-> state, running |-> FALSE, pid |-> None]
    ELSE [state |-> state, running |-> TRUE, pid |-> state.child]

\* the match on state.child shared by the three snapshot_locked functions
SnapshotRunning(state) ==
    IF ~IsSome(state.child)
      THEN [state |-> state, running |-> FALSE, pid |-> None]
    ELSE IF state.child_exited
      THEN [state |-> [state EXCEPT !.child = None], running |-> FALSE, pid |-> None]
    ELSE [state |-> state, running |-> TRUE, pid |-> state.child]

EngineManager_snapshot_locked(state) == SnapshotRunning(state)
OpenworkServerManager_snapshot_locked(state) == SnapshotRunning(state)
OpenCodeRouterManager_snapshot_locked(state) == SnapshotRunning(state)

(***************************************************************************)
(* Process events (CommandEvent) and the handlers of the draining tasks.   *)
(***************************************************************************)
\* the text a process writes, chunk by chunk: the n-th chunk emitted in a
\* behaviour (the chunks differ, so that a missing one shows)
ChunkTable == << <<"a">>, <<"b", "c">>, <<"w">>, <<"c", "a">> >>
Chunk(n) == ChunkTable[((n - 1) % Len(ChunkTable)) + 1]
Streams == {"Stdout", "Stderr"}
\* TerminatedPayload.code
ExitCodes == {None, Some(1)}
\* the text of a CommandEvent::Error
ErrorMessage == <<"!">>
\* format!("OpenWork server exited (code {code}).")
ExitedMessage == <<"x">>
\* format!("OpenWork server: {error}")
RelayFailedMessage == <<"x", "!">>

Event(type, data) == [type |-> type, data |-> data]

\* the match of the draining task spawned by engine_start in Direct mode
EngineOnEvent(state, e) ==
    CASE e.type = "Stdout" ->
           [state EXCEPT !.last_stdout = AppendOutput(state.last_stdout, e.data)]
      [] e.type = "Stderr" ->
           [state EXCEPT !.last_stderr = AppendOutput(state.last_stderr, e.data)]
      [] e.type = "Terminated" -> [state EXCEPT !.child_exited = TRUE]
      [] e.type = "Error" -> [state EXCEPT !.child_exited = TRUE]

\* the match of the draining task spawned by engine_start in Orchestrator mode
OrchestratorOnEvent(state, e) ==
    CASE e.type = "Stdout" ->
           [state EXCEPT !.last_stdout = AppendOutput(state.last_stdout, e.data)]
      [] e.type = "Stderr" ->
           [state EXCEPT !.last_stderr = AppendOutput(state.last_stderr, e.data)]
      [] e.type = "Terminated" -> [state EXCEPT !.child_exited = TRUE]
      [] e.type = "Error" ->
           [state EXCEPT !.child_exited = TRUE,
                         !.last_stderr = AppendOutput(state.last_stderr, e.data)]

\* the match of the draining tasks of start_openwork_server and
\* opencodeRouter_start (the same code but for the text of the exit message)
SidecarOnEvent(state, e) ==
    CASE e.type = "Stdout" ->
           [state EXCEPT !.last_stdout = AppendOutput(state.last_stdout, e.data)]
      [] e.type = "Stderr" ->
           [state EXCEPT !.last_stderr = AppendOutput(state.last_stderr, e.data)]
      [] e.type = "Terminated" ->
           [state EXCEPT !.child_exited = TRUE,
                         !.last_stderr =
                            IF IsSome(e.data)
                              THEN Some(truncate_output(ExitedMessage, OutputCap))
                              ELSE state.last_stderr]
      [] e.type = "Error" ->
           [state EXCEPT !.child_exited = TRUE,
                         !.last_stderr = AppendOutput(state.last_stderr, e.data)]

(***************************************************************************)
(* The registries by name.                                                 *)
(***************************************************************************)
Default(r) ==
    CASE r = "engine" -> EngineState_default
      [] r = "orchestrator" -> OrchestratorState_default
      [] r = "openwork" -> OpenworkServerState_default
      [] r = "router" -> OpenCodeRouterState_default

StopLocked(r, state) ==
    CASE r = "engine" -> EngineManager_stop_locked(state)
      [] r = "orchestrator" -> OrchestratorManager_stop_locked(state)
      [] r = "openwork" -> OpenworkServerManager_stop_locked(state)
      [] r = "router" -> OpenCodeRouterManager_stop_locked(state)

\* the match of the draining task that start spawns for registry r
OnEvent(r, state, e) ==
    CASE r = "engine" -> EngineOnEvent(state, e)
      [] r = "orchestrator" -> OrchestratorOnEvent(state, e)
      [] r = "openwork" -> SidecarOnEvent(state, e)
      [] r = "router" -> SidecarOnEvent(state, e)

(***************************************************************************)
(* What a start writes into a registry.  `c` holds the locals of           *)
(* engine_start, `pid` is the spawned child, `tag` a value generated for   *)
(* the session (a port, a token).                                          *)
(***************************************************************************)
Host == "127.0.0.1"
ProjectDir == "w1"
DataDir == "dd"

\* engine_start, Direct mode, after spawn_engine
EngineSpawnReset(state) ==
    [state EXCEPT !.last_stdout = None, !.last_stderr = None,
                  !.child_exited = FALSE]

\* a mutant of EngineInstallDirect: the session is recorded without its handle
EngineInstallDirect_drops_child(state, c) ==
    [state EXCEPT !.project_dir = Some(ProjectDir),
                  !.hostname = Some(Host),
                  !.port = c.port,
                  !.base_url = Some(<<Host, Unwrap(c.port)>>),
                  !.opencode_username = c.username,
                  !.opencode_password = c.password]

\* engine_start, Direct mode, after the warm-up loop
EngineInstallDirect(state, c) ==
    [state EXCEPT !.child = c.child,
                  !.project_dir = Some(ProjectDir),
                  !.hostname = Some(Host),
                  !.port = c.port,
                  !.base_url = Some(<<Host, Unwrap(c.port)>>),
                  !.opencode_username = c.username,
                  !.opencode_password = c.password]

\* engine_start, Orchestrator mode, once the daemon reports the engine
EngineInstallOrchestrator(state, c) ==
    [state EXCEPT !.runtime = "Orchestrator",
                  !.child = None,
                  !.child_exited = FALSE,
                  !.project_dir = Some(ProjectDir),
                  !.hostname = Some(Host),
                  !.port = c.port,
                  !.base_url = Some(<<Host, Unwrap(c.port)>>),
                  !.opencode_username = c.username,
                  !.opencode_password = c.password,
                  !.last_stdout = None,
                  !.last_stderr = None]

\* engine_start when start_openwork_server returns Err
EngineRelayFailed(state) ==
    [state EXCEPT !.last_stderr =
                     Some(truncate_output(RelayFailedMessage, OutputCap))]

\* engine_start, Orchestrator mode, after spawn_orchestrator_daemon
OrchestratorInstall(state, pid) ==
    [state EXCEPT !.child = Some(pid),
                  !.child_exited = FALSE,
                  !.data_dir = Some(DataDir),
                  !.last_stdout = None,
                  !.last_stderr = None]

\* start_openwork_server after spawn_openwork_server
OpenworkInstall(state, pid, tag) ==
    [state EXCEPT !.child = Some(pid),
                  !.child_exited = FALSE,
                  !.host = Some("0.0.0.0"),
                  !.port = Some(tag),
                  !.base_url = Some(<<Host, tag>>),
                  !.connect_url = Some(<<"lan", tag>>),
                  !.mdns_url = Some(<<"mdns", tag>>),
                  !.lan_url = Some(<<"lan", tag>>),
                  !.client_token = Some(<<"client", tag>>),
                  !.host_token = Some(<<"host", tag>>),
                  !.last_stdout = None,
                  !.last_stderr = None]

\* opencodeRouter_start after the spawn
RouterInstall(state, pid, tag) ==
    [state EXCEPT !.child = Some(pid),
                  !.child_exited = FALSE,
                  !.workspace_path = Some(ProjectDir),
                  !.opencode_url = Some(<<Host, tag>>),
                  !.health_port = Some(tag),
                  !.last_stdout = None,
                  !.last_stderr = None]

(***************************************************************************)
(* State.                                                                  *)
(***************************************************************************)
VARIABLES
    engine,         \* EngineManager.inner
    orchestrator,   \* OrchestratorManager.inner
    openwork,       \* OpenworkServerManager.inner
    router,         \* OpenCodeRouterManager.inner
    procs,          \* the processes spawned so far, by pid: the registry
                    \* whose draining task reads its events, whether it is
                    \* alive, and its event channel
    emits,          \* number of chunks written so far
    hist,           \* per registry, the process the last start spawned and
                    \* the text its draining task has received from it on
                    \* each stream (history, not program state)
    started,        \* the processes spawned by the last start that returned
                    \* Ok (history, not program state)
    auth_file,      \* openwork-orchestrator-auth.json, None when absent
    pc,             \* position of the main thread
    held,           \* registry locks the main thread holds
    call,           \* locals of the command in flight
    ret,            \* what the command that is returning returns
    info_pc,        \* position of the async opencodeRouter_info command
    wait,           \* locals of wait_for_orchestrator and of the lines of
                    \* engine_start that compute its timeout
    poisoned,       \* the registries whose mutex is poisoned: a thread
                    \* panicked while it held the lock
    task            \* the call in flight of a function or command that
                    \* reads none of the registries: its position, its
                    \* inputs and its result

vars == <<engine, orchestrator, openwork, router, procs, emits, hist, started,
          auth_file, pc, held, call, ret, info_pc, wait, poisoned, task>>

Reg(r) ==
    CASE r = "engine" -> engine
      [] r = "orchestrator" -> orchestrator
      [] r = "openwork" -> openwork
      [] r = "router" -> router

Pids == 1..Len(procs)
NoCall == [runtime |-> "Direct", port |-> None, username |-> None,
           password |-> None, child |-> None, output_exited |-> FALSE]
\* what a command returns: Ok(info) with the fields of the info the model
\* follows, or Err(message)
Ret(op, ok, running, pid) ==
    [op |-> op, ok |-> ok, running |-> running, pid |-> pid, err |-> None,
     opencode_username |-> None, opencode_password |-> None]
RetErr(op, message) == [Ret(op, FALSE, FALSE, None) EXCEPT !.err = Some(message)]
\* EngineInfo { opencode_username, opencode_password, .. }
WithCredentials(r, username, password) ==
    [r EXCEPT !.opencode_username = username, !.opencode_password = password]
NoRet == Ret("none", TRUE, FALSE, None)

\* the messages of the Err results, by what they report
ConfigError == "projectDir is required"
ResolutionError == "OpenCode CLI not found"
SpawnError == "Failed to start"
ExitedError == "OpenCode exited immediately"
TimedOutError == "Failed to start orchestrator (waited)"
NoStatusError == "Orchestrator did not report OpenCode status"
NoHist == [pid |-> None, out |-> <<>>, err |-> <<>>]
HistOf(p) == [pid |-> Some(p), out |-> <<>>, err |-> <<>>]

Alive(p) == procs[p].alive
AliveOf(r) == {p \in Pids : procs[p].reg = r /\ procs[p].alive}

\* CommandChild::kill on the held child; the wrapper reports the exit of the
\* killed process as a Terminated event without an exit code
Kill(ps, child) ==
    IF IsSome(child) /\ ps[child[1]].alive
      THEN [ps EXCEPT ![child[1]].alive = FALSE,
                      ![child[1]].chan = Append(@, Event("Terminated", None))]
      ELSE ps

\* a mutant of StopKill: the held child is dropped without being killed
StopKill_no_kill(ps, child) == ps

\* `if let Some(child) = state.child.take() { let _ = child.kill(); }`
StopKill(ps, child) == Kill(ps, child)

\* Command::spawn: the new process and its event channel
Spawned(ps, r) ==
    Append(ps, [reg |-> r, alive |-> TRUE, attached |-> TRUE, chan |-> <<>>,
                opencode |-> None])

\* a mutant of opencode_connect_url: the relay is given no engine URL
opencode_connect_url_none(port) == None

\* engine_start: resolve_connect_url(port).unwrap_or_else(|| base URL), the
\* URL of the engine handed to start_openwork_server
opencode_connect_url(port) == Some(<<"lan", port>>)

\* spawn_openwork_server(.., opencode_base_url, ..): the relay process and
\* the engine URL it is started against
SpawnedRelay(ps, opencode_base_url) ==
    [Spawned(ps, "openwork") EXCEPT ![Len(ps) + 1].opencode = opencode_base_url]

\* clear_orchestrator_auth(dir) when state.data_dir is set
AuthAfterStop(state, file) == IF IsSome(state.data_dir) THEN None ELSE file

\* `.expect("engine mutex poisoned")`: the command panics
EnginePoisonedPanic == "engine mutex poisoned"
\* `.expect("openwork server mutex poisoned")`
OpenworkPoisonedPanic == "openwork server mutex poisoned"

\* no such call is in flight
NoTask == [pc |-> "idle"]

\* wait_for_orchestrator is not running
NoWait == [pc |-> "idle", env |-> None, timeout_ms |-> 0, elapsed |-> 0,
           last_error |-> None, last_probe |-> None, result |-> None]

Init ==
    /\ engine = EngineState_default
    /\ orchestrator = OrchestratorState_default
    /\ openwork = OpenworkServerState_default
    /\ router = OpenCodeRouterState_default
    /\ procs = <<>>
    /\ emits = 0
    /\ hist = [r \in Registries |-> NoHist]
    /\ started = {}
    /\ auth_file = None
    /\ pc = "idle"
    /\ held = {}
    /\ call = NoCall
    /\ ret = NoRet
    /\ info_pc = "idle"
    /\ wait = NoWait
    /\ poisoned = {}
    /\ task = NoTask

(***************************************************************************)
(* The spawned processes and the draining tasks.                           *)
(***************************************************************************)
\* a process writes a chunk to stdout or stderr
ProcEmit(p) ==
    /\ pc # "exited"
    /\ Alive(p)
    /\ procs[p].attached
    /\ emits < MaxEmit
    /\ \E st \in Streams :
         procs' = [procs EXCEPT ![p].chan = Append(@, Event(st, Chunk(emits + 1)))]
    /\ emits' = emits + 1
    /\ UNCHANGED <<task, poisoned, wait, engine, orchestrator, openwork, router, hist, started,
                   auth_file, pc, held, call, ret, info_pc>>

\* the exit events a draining task can tell apart: the tasks of the engine
\* and of the daemon do not read the payload of Terminated
ExitEvents(r) ==
    IF r \in {"engine", "orchestrator"}
      THEN {Event("Terminated", None), Event("Error", ErrorMessage)}
      ELSE {Event("Terminated", Some(1)), Event("Error", ErrorMessage)}

\* a process exits on its own, or the wrapper fails to wait for it and
\* reports an Error event
ProcExit(p) ==
    /\ pc # "exited"
    /\ Alive(p)
    /\ \E e \in ExitEvents(procs[p].reg) :
         procs' = [procs EXCEPT ![p].alive = FALSE,
                                ![p].chan = IF procs[p].attached
                                              THEN Append(@, e) ELSE @]
    /\ UNCHANGED <<task, poisoned, wait, engine, orchestrator, openwork, router, emits, hist,
                   started, auth_file, pc, held, call, ret, info_pc>>

\* Mutex::lock(): Err(PoisonError) when the mutex is poisoned
LockOk(r) == r \notin poisoned

\* `if let Ok(mut state) = manager.inner.lock() { stop_locked(&mut state) }`:
\* the registry after it
StopIfLockOk(r, state) == IF LockOk(r) THEN StopLocked(r, state) ELSE state

\* the processes after it
KillIfLockOk(ps, r, child) == IF LockOk(r) THEN StopKill(ps, child) ELSE ps

\* state_handle.try_lock(): fails while a command holds the registry lock,
\* and when the mutex is poisoned
TryLock(r) ==
    /\ r \notin held
    /\ ~(r = "router" /\ info_pc = "locked")
    /\ LockOk(r)

\* one iteration of `while let Some(event) = rx.recv().await` of the draining
\* task of process p
Drain(p) ==
    /\ pc # "exited"
    /\ procs[p].chan # <<>>
    /\ LET e == Head(procs[p].chan)
           r == procs[p].reg
           ok == TryLock(r)
           mine == hist[r].pid = Some(p)
       IN /\ procs' = [procs EXCEPT ![p].chan = Tail(@)]
          /\ hist' = [hist EXCEPT
                        ![r].out = IF mine /\ e.type = "Stdout" THEN @ \o e.data ELSE @,
                        ![r].err = IF mine /\ e.type = "Stderr" THEN @ \o e.data ELSE @]
          /\ call' = IF /\ pc = "es_warmup"
                        /\ call.child = Some(p)
                        /\ e.type \in {"Terminated", "Error"}
                       THEN [call EXCEPT !.output_exited = TRUE]
                       ELSE call
          /\ engine' = IF r = "engine" /\ ok THEN OnEvent(r, engine, e) ELSE engine
          /\ orchestrator' = IF r = "orchestrator" /\ ok
                               THEN OnEvent(r, orchestrator, e) ELSE orchestrator
          /\ openwork' = IF r = "openwork" /\ ok
                           THEN OnEvent(r, openwork, e) ELSE openwork
          /\ router' = IF r = "router" /\ ok THEN OnEvent(r, router, e) ELSE router
    /\ UNCHANGED <<task, poisoned, wait, emits, started, auth_file, pc, held, ret, info_pc>>

(***************************************************************************)
(* engine_start.                                                           *)
(***************************************************************************)
Runtimes == {"Direct", "Orchestrator"}
\* DOWHAT_OPENCODE_AUTH: authentication is enabled unless the variable says
\* no; the model runs with the variable unset
AuthSettings == {TRUE}
\* a value generated for one session (a UUID, an OS-assigned port): tagged
\* by the number of processes spawned before it
Fresh(ps) == Len(ps) + 1
\* the pid of the engine that the daemon supervises, as /health reports it:
\* not a pid of a process the application spawns
DaemonEnginePid == MaxProcs + MaxRouterProcs + 1

\* the EngineInfo that snapshot_locked builds
EngineInfoOf(op, snap) ==
    WithCredentials(Ret(op, TRUE, snap.running, snap.pid),
                    snap.state.opencode_username, snap.state.opencode_password)

\* the auth snapshot as read back: None when the file is absent
read_orchestrator_auth(file) == file

\* a mutant of OrElse: the value at hand or nothing
OrElse_no_fallback(value, fallback) == value

\* Option::or_else
OrElse(value, fallback) == IF IsSome(value) THEN value ELSE fallback

\* auth_snapshot.as_ref().and_then(|auth| auth.<field>.clone())
AuthUsername(auth_snapshot) ==
    IF IsSome(auth_snapshot) THEN Unwrap(auth_snapshot).opencode_username ELSE None
AuthPassword(auth_snapshot) ==
    IF IsSome(auth_snapshot) THEN Unwrap(auth_snapshot).opencode_password ELSE None

\* the EngineInfo that engine_info builds in Orchestrator mode
EngineInfoOrchestrator(state, auth_snapshot, running) ==
    WithCredentials(
      Ret("engine_info", TRUE, running,
          IF running THEN Some(DaemonEnginePid) ELSE None),
      OrElse(state.opencode_username, AuthUsername(auth_snapshot)),
      OrElse(state.opencode_password, AuthPassword(auth_snapshot)))

\* projectDir empty, the config file not writable, or no free port: the
\* command returns before it takes a lock
EngineStartRejected ==
    /\ pc = "idle"
    /\ ret' = RetErr("engine_start", ConfigError)
    /\ pc' = "unlock"
    /\ UNCHANGED <<task, poisoned, wait, engine, orchestrator, openwork, router, procs, emits, hist,
                   started, auth_file, held, call, info_pc>>

\* lines 274-297: port, credentials, then stop_locked on the engine and the
\* orchestrator registries and state.runtime = runtime
EngineStartStop(runtime, enable_auth) ==
    /\ pc = "idle"
    /\ call' = [runtime |-> runtime,
                port |-> Some(Fresh(procs)),
                username |-> IF enable_auth THEN Some("opencode") ELSE None,
                password |-> IF enable_auth THEN Some(Fresh(procs)) ELSE None,
                child |-> None,
                output_exited |-> FALSE]
    /\ engine' = [EngineManager_stop_locked(engine) EXCEPT !.runtime = runtime]
    /\ orchestrator' = OrchestratorManager_stop_locked(orchestrator)
    /\ auth_file' = AuthAfterStop(orchestrator, auth_file)
    /\ procs' = StopKill(StopKill(procs, engine.child), orchestrator.child)
    /\ hist' = [hist EXCEPT !["engine"] = NoHist, !["orchestrator"] = NoHist]
    /\ held' = {"engine"}
    /\ pc' = "es_spawn"
    /\ UNCHANGED <<task, poisoned, wait, openwork, router, emits, started, ret, info_pc>>

\* the engine binary is not found, no free daemon port, or the spawn fails:
\* `return Err` / `?`
EngineStartSpawnFailed ==
    /\ pc = "es_spawn"
    /\ \E message \in {ResolutionError, SpawnError} :
         ret' = RetErr("engine_start", message)
    /\ pc' = "unlock"
    /\ UNCHANGED <<task, poisoned, wait, engine, orchestrator, openwork, router, procs, emits, hist,
                   started, auth_file, held, call, info_pc>>

\* lines 476-495: spawn_engine, reset of the output fields, draining task
EngineStartSpawnDirect ==
    /\ pc = "es_spawn"
    /\ call.runtime = "Direct"
    /\ Len(procs) < MaxProcs
    /\ procs' = Spawned(procs, "engine")
    /\ hist' = [hist EXCEPT !["engine"] = HistOf(Len(procs) + 1)]
    /\ engine' = EngineSpawnReset(engine)
    /\ call' = [call EXCEPT !.child = Some(Len(procs) + 1)]
    /\ pc' = "es_warmup"
    /\ UNCHANGED <<task, poisoned, wait, orchestrator, openwork, router, emits, started, auth_file,
                   held, ret, info_pc>>

\* lines 327-404: the engine lock is dropped, the daemon is spawned, the auth
\* snapshot written, the child installed and its draining task spawned
EngineStartSpawnOrchestrator ==
    /\ pc = "es_spawn"
    /\ call.runtime = "Orchestrator"
    /\ Len(procs) < MaxProcs
    /\ procs' = Spawned(procs, "orchestrator")
    /\ hist' = [hist EXCEPT !["orchestrator"] = HistOf(Len(procs) + 1)]
    /\ auth_file' = Some([opencode_username |-> call.username,
                          opencode_password |-> call.password,
                          project_dir |-> Some(ProjectDir)])
    /\ orchestrator' = OrchestratorInstall(orchestrator, Len(procs) + 1)
    /\ call' = [call EXCEPT !.child = Some(Len(procs) + 1)]
    /\ held' = {}
    /\ pc' = "es_wait"
    /\ UNCHANGED <<task, poisoned, wait, engine, openwork, router, emits, started, ret, info_pc>>

\* lines 544-581: the warm-up loop sees output.exited
EngineWarmupExited ==
    /\ pc = "es_warmup"
    /\ call.output_exited
    /\ ret' = RetErr("engine_start", ExitedError)
    /\ pc' = "unlock"
    /\ UNCHANGED <<task, poisoned, wait, engine, orchestrator, openwork, router, procs, emits, hist,
                   started, auth_file, held, call, info_pc>>

\* lines 584-597: the deadline passes with output.exited unset; the child is
\* installed
EngineWarmupPassed ==
    /\ pc = "es_warmup"
    /\ ~call.output_exited
    /\ engine' = EngineInstallDirect(engine, call)
    /\ pc' = "ow_stop"
    /\ UNCHANGED <<task, poisoned, wait, orchestrator, openwork, router, procs, emits, hist,
                   started, auth_file, held, call, ret, info_pc>>

\* lines 419-425: wait_for_orchestrator times out, or the health payload
\* carries no engine status; `?` returns the error and nothing else is done
EngineWaitFailed ==
    /\ pc = "es_wait"
    /\ \E message \in {TimedOutError, NoStatusError} :
         /\ message = NoStatusError => Alive(Unwrap(call.child))
         /\ ret' = RetErr("engine_start", message)
    /\ pc' = "unlock"
    /\ UNCHANGED <<task, poisoned, wait, engine, orchestrator, openwork, router, procs, emits, hist,
                   started, auth_file, held, call, info_pc>>

\* lines 419-443: the daemon answers /health with ok and an engine status
EngineWaitReady ==
    /\ pc = "es_wait"
    /\ Alive(Unwrap(call.child))
    /\ engine' = EngineInstallOrchestrator(engine, call)
    /\ pc' = "ow_stop"
    /\ UNCHANGED <<task, poisoned, wait, orchestrator, openwork, router, procs, emits, hist,
                   started, auth_file, held, call, ret, info_pc>>

(***************************************************************************)
(* start_openwork_server, called at the end of engine_start.               *)
(***************************************************************************)
\* what engine_start returns once the relay step is over
EngineStartReturn(state) ==
    IF call.runtime = "Direct"
      THEN LET snap == EngineManager_snapshot_locked(state)
           IN [state |-> snap.state, ret |-> EngineInfoOf("engine_start", snap)]
      ELSE [state |-> state,
            ret |-> WithCredentials(
                      Ret("engine_start", TRUE, TRUE, Some(DaemonEnginePid)),
                      call.username, call.password)]

\* lines 50-54: lock, stop_locked
OpenworkStartStop ==
    /\ pc = "ow_stop"
    /\ openwork' = OpenworkServerManager_stop_locked(openwork)
    /\ procs' = StopKill(procs, openwork.child)
    /\ hist' = [hist EXCEPT !["openwork"] = NoHist]
    /\ held' = held \cup {"openwork"}
    /\ pc' = "ow_spawn"
    /\ UNCHANGED <<task, poisoned, wait, engine, orchestrator, router, emits, started,
                   auth_file, call, ret, info_pc>>

\* no port or the spawn fails: start_openwork_server returns Err and
\* engine_start records it in the engine's last_stderr
OpenworkStartFailed ==
    /\ pc = "ow_spawn"
    /\ LET r == EngineStartReturn(EngineRelayFailed(engine))
       IN /\ engine' = r.state
          /\ ret' = r.ret
    /\ started' = {Unwrap(call.child)}
    /\ held' = held \ {"openwork"}
    /\ pc' = "unlock"
    /\ UNCHANGED <<task, poisoned, wait, orchestrator, openwork, router, procs, emits, hist,
                   auth_file, call, info_pc>>

\* lines 56-140: spawn, install, draining task, snapshot
OpenworkStartSpawned ==
    /\ pc = "ow_spawn"
    /\ Len(procs) < MaxProcs
    /\ procs' = SpawnedRelay(procs, opencode_connect_url(Unwrap(call.port)))
    /\ hist' = [hist EXCEPT !["openwork"] = HistOf(Len(procs) + 1)]
    /\ openwork' = OpenworkServerManager_snapshot_locked(
                     OpenworkInstall(openwork, Len(procs) + 1, Fresh(procs))).state
    /\ LET r == EngineStartReturn(engine)
       IN /\ engine' = r.state
          /\ ret' = r.ret
    /\ started' = {Unwrap(call.child), Len(procs) + 1}
    /\ held' = held \ {"openwork"}
    /\ pc' = "unlock"
    /\ UNCHANGED <<task, poisoned, wait, orchestrator, router, emits, auth_file, call, info_pc>>

(***************************************************************************)
(* engine_stop, engine_info, dowhat_server_info.                           *)
(***************************************************************************)
EngineStop ==
    /\ pc = "idle"
    /\ IF LockOk("engine")
         THEN /\ orchestrator' = StopIfLockOk("orchestrator", orchestrator)
              /\ auth_file' = IF LockOk("orchestrator")
                                THEN AuthAfterStop(orchestrator, auth_file)
                                ELSE auth_file
              /\ LET snap == EngineManager_snapshot_locked(
                               EngineManager_stop_locked(engine))
                 IN /\ engine' = snap.state
                    /\ ret' = EngineInfoOf("engine_stop", snap)
              /\ openwork' = StopIfLockOk("openwork", openwork)
              /\ procs' = KillIfLockOk(
                            StopKill(KillIfLockOk(procs, "orchestrator",
                                                  orchestrator.child),
                                     engine.child),
                            "openwork", openwork.child)
              /\ hist' = [r \in Registries |->
                            IF r \in {"engine", "orchestrator", "openwork"}
                                 /\ LockOk(r)
                              THEN NoHist ELSE hist[r]]
              /\ held' = {r \in {"engine", "orchestrator", "openwork"} : LockOk(r)}
         ELSE /\ ret' = RetErr("engine_stop", EnginePoisonedPanic)
              /\ held' = {}
              /\ UNCHANGED <<engine, orchestrator, openwork, auth_file, procs,
                             hist>>
    /\ pc' = "unlock"
    /\ UNCHANGED <<task, poisoned, wait, router, emits, started, call, info_pc>>

\* in Orchestrator mode `running` and `pid` are what the daemon (or the
\* state file it left) reports, and the credentials are those of the
\* registry or else those of the auth snapshot
EngineInfo ==
    /\ pc = "idle"
    /\ IF ~LockOk("engine")
         THEN /\ ret' = RetErr("engine_info", EnginePoisonedPanic)
              /\ held' = {}
              /\ UNCHANGED engine
         ELSE /\ IF engine.runtime = "Orchestrator"
                   THEN /\ \E running \in BOOLEAN :
                             ret' = EngineInfoOrchestrator(
                                      engine, read_orchestrator_auth(auth_file),
                                      running)
                        /\ UNCHANGED engine
                   ELSE LET snap == EngineManager_snapshot_locked(engine)
                        IN /\ engine' = snap.state
                           /\ ret' = EngineInfoOf("engine_info", snap)
              /\ held' = {"engine"}
    /\ pc' = "unlock"
    /\ UNCHANGED <<task, poisoned, wait, orchestrator, openwork, router, procs, emits, hist,
                   started, auth_file, call, info_pc>>

dowhat_server_info ==
    /\ pc = "idle"
    /\ IF LockOk("openwork")
         THEN /\ LET snap == OpenworkServerManager_snapshot_locked(openwork)
                 IN /\ openwork' = snap.state
                    /\ ret' = Ret("dowhat_server_info", TRUE, snap.running,
                                  snap.pid)
              /\ held' = {"openwork"}
         ELSE /\ ret' = RetErr("dowhat_server_info", OpenworkPoisonedPanic)
              /\ held' = {}
              /\ UNCHANGED openwork
    /\ pc' = "unlock"
    /\ UNCHANGED <<task, poisoned, wait, engine, orchestrator, router, procs, emits, hist, started,
                   auth_file, call, info_pc>>

\* the command returns: its guards and locals go out of scope
Unlock ==
    /\ pc = "unlock"
    /\ held' = {}
    /\ pc' = "idle"
    /\ call' = NoCall
    /\ ret' = NoRet
    /\ UNCHANGED <<task, poisoned, wait, engine, orchestrator, openwork, router, procs, emits, hist,
                   started, auth_file, info_pc>>

(***************************************************************************)
(* opencodeRouter_start, opencodeRouter_stop, opencodeRouter_info.         *)
(***************************************************************************)
RouterStartStop ==
    /\ pc = "idle"
    /\ info_pc # "locked"
    /\ router' = OpenCodeRouterManager_stop_locked(router)
    /\ procs' = StopKill(procs, router.child)
    /\ hist' = [hist EXCEPT !["router"] = NoHist]
    /\ held' = {"router"}
    /\ pc' = "rt_spawn"
    /\ UNCHANGED <<task, poisoned, wait, engine, orchestrator, openwork, emits, started,
                   auth_file, call, ret, info_pc>>

RouterStartFailed ==
    /\ pc = "rt_spawn"
    /\ ret' = RetErr("opencodeRouter_start", SpawnError)
    /\ pc' = "unlock"
    /\ UNCHANGED <<task, poisoned, wait, engine, orchestrator, openwork, router, procs, emits, hist,
                   started, auth_file, held, call, info_pc>>

RouterStartSpawned ==
    /\ pc = "rt_spawn"
    /\ Len(procs) < MaxRouterProcs
    /\ procs' = Spawned(procs, "router")
    /\ hist' = [hist EXCEPT !["router"] = HistOf(Len(procs) + 1)]
    /\ LET snap == OpenCodeRouterManager_snapshot_locked(
                     RouterInstall(router, Len(procs) + 1, Fresh(procs)))
       IN /\ router' = snap.state
          /\ ret' = Ret("opencodeRouter_start", TRUE, snap.running, snap.pid)
    /\ pc' = "unlock"
    /\ UNCHANGED <<task, poisoned, wait, engine, orchestrator, openwork, emits, started,
                   auth_file, held, call, info_pc>>

RouterStop ==
    /\ pc = "idle"
    /\ info_pc # "locked"
    /\ LET snap == OpenCodeRouterManager_snapshot_locked(
                     OpenCodeRouterManager_stop_locked(router))
       IN /\ router' = snap.state
          /\ ret' = Ret("opencodeRouter_stop", TRUE, snap.running, snap.pid)
    /\ procs' = StopKill(procs, router.child)
    /\ hist' = [hist EXCEPT !["router"] = NoHist]
    /\ held' = {"router"}
    /\ pc' = "unlock"
    /\ UNCHANGED <<task, poisoned, wait, engine, orchestrator, openwork, emits, started, auth_file,
                   call, info_pc>>

\* the snapshot taken by the async command, off the main thread
RouterInfoSnapshot ==
    /\ pc # "exited"
    /\ info_pc = "idle"
    /\ "router" \notin held
    /\ router' = OpenCodeRouterManager_snapshot_locked(router).state
    /\ info_pc' = "locked"
    /\ UNCHANGED <<task, poisoned, wait, engine, orchestrator, openwork, procs, emits, hist,
                   started, auth_file, pc, held, call, ret>>

\* the guard of the snapshot block goes out of scope; lines 56-63: when the
\* snapshot carried no version, the version is looked up and, if found,
\* stored
RouterInfoFinish ==
    /\ info_pc = "locked"
    /\ \E found \in BOOLEAN :
         router' = IF found /\ ~IsSome(router.version)
                     THEN [router EXCEPT !.version = Some("v1")]
                     ELSE router
    /\ info_pc' = "idle"
    /\ UNCHANGED <<task, poisoned, wait, engine, orchestrator, openwork, procs, emits, hist,
                   started, auth_file, pc, held, call, ret>>

(***************************************************************************)
(* Cleanup on application exit.                                            *)
(***************************************************************************)
ExitCleanup ==
    /\ pc = "idle"
    /\ info_pc # "locked"
    /\ engine' = StopIfLockOk("engine", engine)
    /\ orchestrator' = StopIfLockOk("orchestrator", orchestrator)
    /\ auth_file' = IF LockOk("orchestrator")
                      THEN AuthAfterStop(orchestrator, auth_file) ELSE auth_file
    /\ openwork' = StopIfLockOk("openwork", openwork)
    /\ router' = StopIfLockOk("router", router)
    /\ procs' = KillIfLockOk(
                  KillIfLockOk(
                    KillIfLockOk(KillIfLockOk(procs, "engine", engine.child),
                                 "orchestrator", orchestrator.child),
                    "openwork", openwork.child),
                  "router", router.child)
    /\ hist' = [r \in Registries |-> IF LockOk(r) THEN NoHist ELSE hist[r]]
    /\ pc' = "exited"
    /\ UNCHANGED <<task, poisoned, wait, emits, started, held, call, ret, info_pc>>

(***************************************************************************)
(* Spec: the engine, the daemon and the relay server.  Their processes     *)
(* exit but write no output here: output is followed in SpecRouter and in  *)
(* SpecSink.                                                               *)
(***************************************************************************)
Next ==
    \/ \E p \in Pids : ProcExit(p)
    \/ \E p \in Pids : Drain(p)
    \/ EngineStartRejected
    \/ \E runtime \in Runtimes, enable_auth \in AuthSettings :
         EngineStartStop(runtime, enable_auth)
    \/ EngineStartSpawnFailed
    \/ EngineStartSpawnDirect
    \/ EngineStartSpawnOrchestrator
    \/ EngineWarmupExited
    \/ EngineWarmupPassed
    \/ EngineWaitFailed
    \/ EngineWaitReady
    \/ OpenworkStartStop
    \/ OpenworkStartFailed
    \/ OpenworkStartSpawned
    \/ EngineStop
    \/ EngineInfo
    \/ dowhat_server_info
    \/ Unlock
    \/ ExitCleanup

Spec == Init /\ [][Next]_vars

(***************************************************************************)
(* SpecRouter: the router, with the output its processes write.            *)
(***************************************************************************)
NextRouter ==
    \/ \E p \in Pids : ProcEmit(p)
    \/ \E p \in Pids : ProcExit(p)
    \/ \E p \in Pids : Drain(p)
    \/ RouterStartStop
    \/ RouterStartFailed
    \/ RouterStartSpawned
    \/ RouterStop
    \/ RouterInfoSnapshot
    \/ RouterInfoFinish
    \/ Unlock
    \/ ExitCleanup

SpecRouter == Init /\ [][NextRouter]_vars

(***************************************************************************)
(* SpecRelaunch: Spec with relaunches of the application.  The daemon can  *)
(* keep running across a relaunch (engine.rs 98-100): the application is   *)
(* killed between two commands, or has exited, and is started again.  The  *)
(* managed state is built anew; the files stay; the processes it had       *)
(* spawned and did not kill keep running, and nobody reads their events.   *)
(***************************************************************************)
Relaunch ==
    /\ pc \in {"idle", "exited"}
    /\ info_pc = "idle"
    /\ engine' = EngineState_default
    /\ orchestrator' = OrchestratorState_default
    /\ openwork' = OpenworkServerState_default
    /\ router' = OpenCodeRouterState_default
    /\ procs' = [p \in Pids |-> [procs[p] EXCEPT !.attached = FALSE,
                                                 !.chan = <<>>]]
    /\ hist' = [r \in Registries |-> NoHist]
    /\ pc' = "idle"
    /\ held' = {}
    /\ call' = NoCall
    /\ ret' = NoRet
    /\ poisoned' = {}
    /\ UNCHANGED <<task, wait, emits, started, auth_file, info_pc>>

NextRelaunch ==
    \/ Next
    \/ Relaunch

SpecRelaunch == Init /\ [][NextRelaunch]_vars

(***************************************************************************)
(* SpecPoison: Spec in a build with overflow checks (a development build). *)
(* truncate_output subtracts max_chars from the number of characters of a  *)
(* text that is longer than max_chars in bytes; when the text has fewer    *)
(* characters than max_chars the subtraction overflows and panics.  The    *)
(* draining task holds the registry lock at that point, so the panic       *)
(* poisons the mutex.                                                      *)
(***************************************************************************)
\* `input.chars().count() - max_chars` overflows
Overflows(input, max_chars) ==
    ByteLen(input) > max_chars /\ CharCount(input) < max_chars

\* the buffer that the draining task appends a chunk of stream st to
BufferOf(state, st) ==
    IF st = "Stdout" THEN state.last_stdout ELSE state.last_stderr

\* between two commands the draining task of process p receives a chunk
\* whose append overflows in truncate_output: the task panics with the
\* registry lock held and ends
DrainPanics(p) ==
    /\ pc = "idle"
    /\ Alive(p)
    /\ procs[p].attached
    /\ procs[p].chan = <<>>
    /\ TryLock(procs[p].reg)
    /\ \E st \in Streams, chunk \in {Chunk(n) : n \in 1..Len(ChunkTable)} :
         Overflows(UnwrapOrDefault(BufferOf(Reg(procs[p].reg), st)) \o chunk,
                   OutputCap)
    /\ poisoned' = poisoned \cup {procs[p].reg}
    /\ procs' = [procs EXCEPT ![p].attached = FALSE]
    /\ UNCHANGED <<task, wait, engine, orchestrator, openwork, router, emits, hist,
                   started, auth_file, pc, held, call, ret, info_pc>>

\* the commands that start a session are followed while no lock is poisoned
NextPoison ==
    \/ poisoned = {} /\ Next
    \/ /\ poisoned # {}
       /\ \/ \E p \in Pids : ProcExit(p)
          \/ \E p \in Pids : Drain(p)
          \/ EngineStop
          \/ EngineInfo
          \/ dowhat_server_info
          \/ Unlock
          \/ ExitCleanup
    \/ \E p \in Pids : DrainPanics(p)

SpecPoison == Init /\ [][NextPoison]_vars

(***************************************************************************)
(* SpecSink: one registry under arbitrary sequences of start, process      *)
(* event, stop and snapshot.  `ret` names the operation applied last.      *)
(***************************************************************************)
\* the chunks a process may write
SinkChunks == {<<"a">>, <<"b", "c">>, <<"w">>}
SinkEvents ==
    {Event(st, c) : st \in Streams, c \in SinkChunks}
      \cup {Event("Terminated", code) : code \in ExitCodes}
      \cup {Event("Error", ErrorMessage)}

\* the locals of an engine_start whose child is process 1
SinkCall == [runtime |-> "Direct", port |-> Some(1), username |-> Some("opencode"),
             password |-> Some(1), child |-> Some(1), output_exited |-> FALSE]

\* the states in which a start can leave registry r, from the stopped state
StartedStates(r, stopped) ==
    CASE r = "engine" ->
           LET direct == EngineInstallDirect(EngineSpawnReset(stopped), SinkCall)
               daemon == EngineInstallOrchestrator(stopped, SinkCall)
           IN {direct, EngineRelayFailed(direct), daemon, EngineRelayFailed(daemon)}
      [] r = "orchestrator" -> {OrchestratorInstall(stopped, 1)}
      [] r = "openwork" -> {OpenworkInstall(stopped, 1, 1)}
      [] r = "router" -> {RouterInstall(stopped, 1, 1)}

StartOp(r) ==
    CASE r = "engine" -> "engine_start"
      [] r = "orchestrator" -> "spawn_orchestrator_daemon"
      [] r = "openwork" -> "start_openwork_server"
      [] r = "router" -> "opencodeRouter_start"
StopOp(r) ==
    CASE r = "engine" -> "EngineManager::stop_locked"
      [] r = "orchestrator" -> "OrchestratorManager::stop_locked"
      [] r = "openwork" -> "OpenworkServerManager::stop_locked"
      [] r = "router" -> "OpenCodeRouterManager::stop_locked"
SnapshotOp(r) ==
    CASE r = "engine" -> "EngineManager::snapshot_locked"
      [] r = "openwork" -> "OpenworkServerManager::snapshot_locked"
      [] r = "router" -> "OpenCodeRouterManager::snapshot_locked"
EventOp(r) ==
    CASE r = "engine" -> "engine event"
      [] r = "orchestrator" -> "orchestrator event"
      [] r = "openwork" -> "openwork event"
      [] r = "router" -> "router event"
\* the registries that have a snapshot_locked
Snapshotted == {"engine", "openwork", "router"}

SnapshotLocked(r, state) ==
    CASE r = "engine" -> EngineManager_snapshot_locked(state)
      [] r = "openwork" -> OpenworkServerManager_snapshot_locked(state)
      [] r = "router" -> OpenCodeRouterManager_snapshot_locked(state)

\* the registries are independent records: a behaviour drives one of them
OthersDefault(r) == \A q \in Registries \ {r} : Reg(q) = Default(q)

SetReg(r, state) ==
    /\ engine' = IF r = "engine" THEN state ELSE engine
    /\ orchestrator' = IF r = "orchestrator" THEN state ELSE orchestrator
    /\ openwork' = IF r = "openwork" THEN state ELSE openwork
    /\ router' = IF r = "router" THEN state ELSE router

SinkStart(r) ==
    /\ OthersDefault(r)
    /\ \E state \in StartedStates(r, StopLocked(r, Reg(r))) : SetReg(r, state)
    /\ ret' = Ret(StartOp(r), TRUE, TRUE, Some(1))
    /\ started' = {1}
    /\ UNCHANGED <<task, poisoned, wait, procs, emits, hist, auth_file, pc, held, call, info_pc>>

\* a mutant of FailedStart: the start tries to spawn before it stops
FailedStart_without_stop(r, state, runtime) ==
    IF r = "engine" THEN [state EXCEPT !.runtime = runtime] ELSE state

\* what a start whose spawn fails leaves in registry r: what its stop step
\* left (engine_start has set the runtime by then)
FailedStart(r, state, runtime) ==
    IF r = "engine"
      THEN [EngineManager_stop_locked(state) EXCEPT !.runtime = runtime]
      ELSE StopLocked(r, state)

SinkStartFailed(r) ==
    /\ OthersDefault(r)
    /\ \E runtime \in Runtimes : SetReg(r, FailedStart(r, Reg(r), runtime))
    /\ ret' = RetErr(StartOp(r), SpawnError)
    /\ UNCHANGED <<task, poisoned, wait, procs, emits, hist, started, auth_file, pc, held, call,
                   info_pc>>

SinkEvent(r) ==
    /\ OthersDefault(r)
    /\ \E e \in SinkEvents : SetReg(r, OnEvent(r, Reg(r), e))
    /\ ret' = Ret(EventOp(r), TRUE, FALSE, None)
    /\ UNCHANGED <<task, poisoned, wait, procs, emits, hist, started, auth_file, pc, held, call, info_pc>>

SinkStop(r) ==
    /\ OthersDefault(r)
    /\ SetReg(r, StopLocked(r, Reg(r)))
    /\ ret' = Ret(StopOp(r), TRUE, FALSE, None)
    /\ UNCHANGED <<task, poisoned, wait, procs, emits, hist, started, auth_file, pc, held, call, info_pc>>

SinkSnapshot(r) ==
    /\ OthersDefault(r)
    /\ r \in Snapshotted
    /\ LET snap == SnapshotLocked(r, Reg(r))
       IN /\ SetReg(r, snap.state)
          /\ ret' = Ret(SnapshotOp(r), TRUE, snap.running, snap.pid)
    /\ UNCHANGED <<task, poisoned, wait, procs, emits, hist, started, auth_file, pc, held, call, info_pc>>

NextSink ==
    \/ \E r \in Registries : SinkStart(r)
    \/ \E r \in Registries : SinkStartFailed(r)
    \/ \E r \in Registries : SinkEvent(r)
    \/ \E r \in Registries : SinkStop(r)
    \/ \E r \in Registries : SinkSnapshot(r)

SpecSink == Init /\ [][NextSink]_vars

(***************************************************************************)
(* SpecWait: the readiness wait of Orchestrator mode.  engine_start reads  *)
(* the timeout from the environment and calls wait_for_orchestrator, which *)
(* probes the daemon's /health until a probe succeeds or the time is up.   *)
(* Time is in milliseconds.                                                *)
(***************************************************************************)
\* std::thread::sleep(Duration::from_millis(200))
PollIntervalMs == 200
\* .unwrap_or(180_000)
DefaultHealthTimeoutMs == 180000
\* .filter(|value| *value >= 1_000)
MinHealthTimeoutMs == 1000

Digits == <<"0", "1", "2", "3", "4", "5", "6", "7", "8", "9">>
IsDigit(c) == \E i \in 1..Len(Digits) : Digits[i] = c
DigitValue(c) == (CHOOSE i \in 1..Len(Digits) : Digits[i] = c) - 1

\* char::is_whitespace
IsWhitespace(c) == c \in {" ", "\n"}
RECURSIVE TrimStart(_)
TrimStart(s) ==
    IF s # <<>> /\ IsWhitespace(Head(s)) THEN TrimStart(Tail(s)) ELSE s
RECURSIVE TrimEnd(_)
TrimEnd(s) ==
    IF s # <<>> /\ IsWhitespace(s[Len(s)])
      THEN TrimEnd(SubSeq(s, 1, Len(s) - 1)) ELSE s
\* str::trim
Trim(s) == TrimEnd(TrimStart(s))

RECURSIVE DecimalValue(_)
\* the number a sequence of digits denotes
DecimalValue(s) ==
    IF s = <<>> THEN 0
    ELSE 10 * DecimalValue(SubSeq(s, 1, Len(s) - 1)) + DigitValue(s[Len(s)])

\* str::parse::<u64>().ok(): digits after an optional plus sign (the values
\* of the model are far below u64::MAX)
ParseU64(s) ==
    LET digits == IF s # <<>> /\ Head(s) = "+" THEN Tail(s) ELSE s
    IN IF digits # <<>> /\ \A i \in 1..Len(digits) : IsDigit(digits[i])
         THEN Some(DecimalValue(digits))
         ELSE None

\* read_compat_env: the value of the variable unless it is unset or blank
read_compat_env(value) ==
    IF IsSome(value) /\ Trim(Unwrap(value)) # <<>> THEN value ELSE None

\* Option::filter
Filter(o, min) == IF IsSome(o) /\ Unwrap(o) >= min THEN o ELSE None

\* Option::unwrap_or
UnwrapOr(o, default) == IF IsSome(o) THEN Unwrap(o) ELSE default

\* engine_start: the timeout handed to wait_for_orchestrator, from the value
\* of DOWHAT_ORCHESTRATOR_START_TIMEOUT_MS
health_timeout_ms(value) ==
    LET configured == read_compat_env(value)
        parsed == IF IsSome(configured)
                    THEN ParseU64(Trim(Unwrap(configured))) ELSE None
    IN UnwrapOr(Filter(parsed, MinHealthTimeoutMs), DefaultHealthTimeoutMs)

\* the values of DOWHAT_ORCHESTRATOR_START_TIMEOUT_MS the model runs with
TimeoutEnvValues ==
    {None,
     Some(<<" ">>),
     Some(<<"2", "s">>),
     Some(<<"5", "0", "0">>),
     Some(<<"9", "9", "9">>),
     Some(<<"1", "0", "0", "0">>),
     Some(<<" ", "1", "5", "0", "0", " ">>),
     Some(<<"+", "2", "0", "0", "0">>)}

\* timeouts of direct calls of wait_for_orchestrator (a public function)
WaitTimeoutsMs == {0, 300}

\* how long a probe takes to answer or to fail
ProbeLatenciesMs == {0, 300, 2500}

\* the payload of a healthy answer
HealthPayloads == {"health 1", "health 2"}
UnhealthyMessage == "Orchestrator reported unhealthy"
TimedOutMessage == "Timed out waiting for orchestrator"
\* what fetch_orchestrator_health returns: a parsed payload with its ok
\* flag, or the error of the request (no connection, a status that is not
\* 2xx, a body that does not parse)
ProbeOutcomes ==
    {[kind |-> "Ok", ok |-> TRUE, data |-> h] : h \in HealthPayloads}
      \cup {[kind |-> "Ok", ok |-> FALSE, data |-> "health 0"]}
      \cup {[kind |-> "Err", ok |-> FALSE, data |-> e] :
               e \in {"connection refused", "status code 503"}}

\* the error a probe that did not succeed leaves in last_error
ProbeError(outcome) ==
    IF outcome.kind = "Ok" THEN UnhealthyMessage ELSE outcome.data

WaitOk(health) == Some([ok |-> TRUE, value |-> health])
WaitErr(message) == Some([ok |-> FALSE, value |-> message])

\* a mutant of WaitContinues: polls once more when the time is just up
WaitContinues_inclusive(elapsed, timeout_ms) == elapsed <= timeout_ms

\* while start.elapsed().as_millis() < timeout_ms as u128
WaitContinues(elapsed, timeout_ms) == elapsed < timeout_ms

\* a mutant of ProbeStep: any parsed answer counts as ready
ProbeStep_ready_on_any_answer(w, outcome, latency) ==
    LET at == [w EXCEPT !.elapsed = @ + latency, !.last_probe = Some(outcome)]
    IN IF outcome.kind = "Ok"
         THEN [at EXCEPT !.pc = "done", !.result = WaitOk(outcome.data)]
         ELSE [at EXCEPT !.pc = "sleep",
                         !.last_error = Some(ProbeError(outcome))]

\* the match on fetch_orchestrator_health(base_url)
ProbeStep(w, outcome, latency) ==
    LET at == [w EXCEPT !.elapsed = @ + latency, !.last_probe = Some(outcome)]
    IN IF outcome.kind = "Ok" /\ outcome.ok
         THEN [at EXCEPT !.pc = "done", !.result = WaitOk(outcome.data)]
         ELSE [at EXCEPT !.pc = "sleep",
                         !.last_error = Some(ProbeError(outcome))]

\* the variables of the rest of the program
program == <<engine, orchestrator, openwork, router, procs, emits, hist,
             started, auth_file, pc, held, call, ret, info_pc, poisoned, task>>

\* the variables of the registries, their commands and the readiness wait
lifecycle == <<engine, orchestrator, openwork, router, procs, emits, hist,
               started, auth_file, pc, held, call, ret, info_pc, poisoned, wait>>

\* engine_start, lines 414-419: the timeout is computed and the wait called
EngineStartHealthWait(value) ==
    /\ wait.pc = "idle"
    /\ wait' = [NoWait EXCEPT !.pc = "check", !.env = Some(value),
                              !.timeout_ms = health_timeout_ms(value)]
    /\ UNCHANGED program

\* wait_for_orchestrator called with a timeout of the caller's choice
WaitCall(timeout_ms) ==
    /\ wait.pc = "idle"
    /\ wait' = [NoWait EXCEPT !.pc = "check", !.timeout_ms = timeout_ms]
    /\ UNCHANGED program

\* the loop condition, and the Err after the loop
WaitCheck ==
    /\ wait.pc = "check"
    /\ wait' = IF WaitContinues(wait.elapsed, wait.timeout_ms)
                 THEN [wait EXCEPT !.pc = "probe"]
                 ELSE [wait EXCEPT !.pc = "done",
                                   !.result = WaitErr(UnwrapOr(wait.last_error,
                                                               TimedOutMessage))]
    /\ UNCHANGED program

\* one probe
WaitProbe ==
    /\ wait.pc = "probe"
    /\ \E outcome \in ProbeOutcomes, latency \in ProbeLatenciesMs :
         wait' = ProbeStep(wait, outcome, latency)
    /\ UNCHANGED program

\* the sleep between two probes
WaitSleep ==
    /\ wait.pc = "sleep"
    /\ wait' = [wait EXCEPT !.pc = "check", !.elapsed = @ + PollIntervalMs]
    /\ UNCHANGED program

NextWait ==
    \/ \E value \in TimeoutEnvValues : EngineStartHealthWait(value)
    \/ \E timeout_ms \in WaitTimeoutsMs : WaitCall(timeout_ms)
    \/ WaitCheck
    \/ WaitProbe
    \/ WaitSleep

SpecWait == Init /\ [][NextWait]_vars

(***************************************************************************)
(* SpecName: derive_orchestrator_container_name on run ids over a small    *)
(* alphabet: a letter, an allowed punctuation character, two ASCII         *)
(* characters that are not allowed, and a character outside ASCII.  The    *)
(* limit of 24 is scaled to NameCap.                                       *)
(***************************************************************************)
\* the longest run id
MaxRunIdLen == 5
\* the 24 of `sanitized.truncate(24)` and of `.slice(0, 24)`, scaled
NameCap == 3

RunIdChars == {"a", "_", "/", " ", "w"}
RunIds == UNION {[1..n -> RunIdChars] : n \in 0..MaxRunIdLen}

\* "openwork-orchestrator-", counted as one unit of text
ContainerNamePrefix == <<"openwork-orchestrator-">>

\* ch.is_ascii_alphanumeric() || ch == '_' || ch == '.' || ch == '-'
IsNameChar(ch) == ch \in {"a", "_", ".", "-"}

\* the loop over run_id.chars(): one character pushed per character read
SanitizeChars(run_id) ==
    [i \in 1..Len(run_id) |-> IF IsNameChar(run_id[i]) THEN run_id[i] ELSE "-"]

\* a mutant of TruncateName: the length is compared with >= and one
\* character more is dropped
TruncateName_short(sanitized, cap) ==
    IF ByteLen(sanitized) >= cap
      THEN SubSeq(sanitized, 1, cap - 1) ELSE sanitized

\* `if sanitized.len() > 24 { sanitized.truncate(24); }`: lengths in bytes;
\* the sanitized text is ASCII, so a byte index is a character index
TruncateName(sanitized, cap) ==
    IF ByteLen(sanitized) > cap THEN SubSeq(sanitized, 1, cap) ELSE sanitized

derive_orchestrator_container_name(run_id) ==
    ContainerNamePrefix \o TruncateName(SanitizeChars(run_id), NameCap)

RECURSIVE JsReplaceRuns(_)
\* runId.replace(/[^a-zA-Z0-9_.-]+/g, "-"): every maximal run of characters
\* outside the set becomes one "-"
JsReplaceRuns(s) ==
    IF s = <<>> THEN <<>>
    ELSE IF IsNameChar(Head(s)) THEN <<Head(s)>> \o JsReplaceRuns(Tail(s))
    ELSE IF Len(s) > 1 /\ ~IsNameChar(s[2]) THEN JsReplaceRuns(Tail(s))
    ELSE <<"-">> \o JsReplaceRuns(Tail(s))

\* String.prototype.slice(0, n)
JsSlice(s, n) == IF Len(s) > n THEN SubSeq(s, 1, n) ELSE s

\* the naming rule of openwork-orchestrator, as the comment in
\* derive_orchestrator_container_name states it
OrchestratorContainerName(run_id) ==
    ContainerNamePrefix \o JsSlice(JsReplaceRuns(run_id), NameCap)

DeriveCall(run_id) ==
    /\ task.pc = "idle"
    /\ task' = [pc |-> "derive", run_id |-> run_id]
    /\ UNCHANGED lifecycle

DeriveReturn ==
    /\ task.pc = "derive"
    /\ task' = [pc |-> "derived", run_id |-> task.run_id,
                name |-> derive_orchestrator_container_name(task.run_id)]
    /\ UNCHANGED lifecycle

NextName ==
    \/ task.pc = "idle" /\ \E run_id \in RunIds : DeriveCall(run_id)
    \/ DeriveReturn

SpecName == Init /\ [][NextName]_vars

(***************************************************************************)
(* SpecDocker: run_docker_command_detailed.  A path is a sequence of       *)
(* components; the value of an environment variable is a sequence of       *)
(* characters in which a path component counts as one character.           *)
(***************************************************************************)
OverridePath == <<"/o/docker">>
HomebrewDocker == <<"/opt/homebrew/bin", "/docker">>
UsrLocalDocker == <<"/usr/local/bin", "/docker">>
DockerAppDocker == <<"/Applications/Docker.app/Contents/Resources/bin", "/docker">>
\* "docker", resolved by the OS
BareDocker == <<"docker">>

\* the values of OPENWORK_DOCKER_BIN, OPENWRK_DOCKER_BIN and DOCKER_BIN
OverrideSettings ==
    {None, Some(<<" ">>), Some(<<" ", "/o/docker", " ">>)}
      \X {None, Some(OverridePath)}
      \X {None, Some(UsrLocalDocker)}
\* PATH of the process, split
PathSettings ==
    {None, Some(<< <<"/p">> >>), Some(<< <<"/p">>, <<"/usr/local/bin">>, <<"/p">> >>)}
\* the PATH that path_helper prints, split: None off macOS or when the
\* helper fails
PathHelperSettings == {None, Some(<< <<"/opt/homebrew/bin">>, <<"/p">> >>)}
\* the executable files there may be
DockerFiles == {OverridePath, <<"/p", "/docker">>, HomebrewDocker, UsrLocalDocker}

DockerEnvs ==
    [overrides : OverrideSettings, path : PathSettings,
     path_helper : PathHelperSettings, files : SUBSET DockerFiles]

\* path.is_file() and a mode with an execute bit
is_executable_file(env, path) == path \in env.files

RECURSIVE PushUnseen(_, _)
\* `if seen.insert(path.clone()) { out.push(path) }` for each path in turn
PushUnseen(out, paths) ==
    IF paths = <<>> THEN out
    ELSE PushUnseen(IF \E i \in 1..Len(out) : out[i] = Head(paths)
                      THEN out ELSE Append(out, Head(paths)),
                    Tail(paths))

RECURSIVE OverridePaths(_)
\* the override variables that are set and not blank, trimmed
OverridePaths(values) ==
    IF values = <<>> THEN <<>>
    ELSE (IF IsSome(Head(values)) /\ Trim(Unwrap(Head(values))) # <<>>
            THEN <<Trim(Unwrap(Head(values)))>> ELSE <<>>)
         \o OverridePaths(Tail(values))

\* dir.join("docker") for each directory
DockerIn(dirs) ==
    IF IsSome(dirs)
      THEN [i \in 1..Len(Unwrap(dirs)) |-> Unwrap(dirs)[i] \o <<"/docker">>]
      ELSE <<>>

FixedDockerLocations == <<HomebrewDocker, UsrLocalDocker, DockerAppDocker>>

\* every candidate before the filter
RawDockerCandidates(env) ==
    PushUnseen(
      PushUnseen(
        PushUnseen(PushUnseen(<<>>, OverridePaths(env.overrides)),
                   DockerIn(env.path)),
        DockerIn(env.path_helper)),
      FixedDockerLocations)

resolve_docker_candidates(env) ==
    SelectSeq(RawDockerCandidates(env), LAMBDA path : is_executable_file(env, path))

\* a mutant of TriedPrograms: the bare command name is not tried
TriedPrograms_no_bare(candidates) == candidates

\* `tried`: the candidates, then "docker"
TriedPrograms(candidates) == Append(candidates, BareDocker)

\* what run_local_command_with_timeout returns for one program: Ok with the
\* exit status, Err because the spawn failed, or Err because the time is up
DockerOutcomes ==
    {[kind |-> "ok", status |-> st] : st \in {0, 1}}
      \cup {[kind |-> k, status |-> -1] : k \in {"spawn_failed", "timed_out"}}

\* the text of the Err of one program
DockerError(bin, outcome) == <<outcome.kind, bin>>

DockerCall(env) ==
    /\ task.pc = "idle"
    /\ task' = [pc |-> "docker", env |-> env,
                tried |-> TriedPrograms(resolve_docker_candidates(env)),
                i |-> 1, errors |-> <<>>, outcomes |-> <<>>, result |-> None]
    /\ UNCHANGED lifecycle

\* one iteration of `for program in tried`
DockerTry(outcome) ==
    /\ task.pc = "docker"
    /\ task.i <= Len(task.tried)
    /\ LET bin == task.tried[task.i]
       IN task' =
            IF outcome.kind = "ok"
              THEN [task EXCEPT !.pc = "docker_done",
                                !.outcomes = Append(@, outcome),
                                !.result = Some([ok |-> TRUE,
                                                 status |-> outcome.status,
                                                 program |-> bin])]
              ELSE [task EXCEPT !.i = @ + 1,
                                !.outcomes = Append(@, outcome),
                                !.errors = Append(@, DockerError(bin, outcome))]
    /\ UNCHANGED lifecycle

\* after the loop: Err("Failed to run docker: {errors.join("; ")} ..")
DockerFailed ==
    /\ task.pc = "docker"
    /\ task.i > Len(task.tried)
    /\ task' = [task EXCEPT !.pc = "docker_done",
                            !.result = Some([ok |-> FALSE, errors |-> task.errors])]
    /\ UNCHANGED lifecycle

NextDocker ==
    \/ \E env \in DockerEnvs : DockerCall(env)
    \/ \E outcome \in DockerOutcomes : DockerTry(outcome)
    \/ DockerFailed

SpecDocker == Init /\ [][NextDocker]_vars

(***************************************************************************)
(* SpecCleanup: sandbox_cleanup_openwork_containers.  A container name is  *)
(* a sequence of units of text, a known prefix being one unit.  The limit  *)
(* of truncate_for_debug is scaled to DebugMaxLen.                         *)
(***************************************************************************)
\* the number of lines `docker ps -a` prints
MaxListed == 3
\* MAX_LEN of truncate_for_debug (1200), scaled
DebugMaxLen == 2

ManagedPrefixes == {<<"openwork-orchestrator-">>, <<"openwork-dev-">>, <<"openwrk-">>}

StartsWith(s, prefix) ==
    Len(s) >= Len(prefix) /\ SubSeq(s, 1, Len(prefix)) = prefix

is_openwork_managed_container(name) ==
    \E prefix \in ManagedPrefixes : StartsWith(name, prefix)

\* the container names of the model, in the order of `names.sort()`
ContainerNames ==
    << <<"openwork-", "x">>,
       <<"openwork-dev-", "b">>,
       <<"openwork-orchestrator-", "a">>,
       <<"openwrk-">>,
       <<"x", "openwrk-">> >>
\* the lines `docker ps -a --format {{.Names}}` may print
ListedLines ==
    {ContainerNames[i] : i \in 1..Len(ContainerNames)}
      \cup {<<>>, <<" ", "openwrk-", " ">>}
Listings == UNION {[1..n -> ListedLines] : n \in 0..MaxListed}

\* list_openwork_managed_containers: the lines trimmed, the managed names
\* kept, sorted, without repetition
list_openwork_managed_containers(lines) ==
    LET names == {Trim(lines[i]) : i \in 1..Len(lines)}
        kept == {name \in names : name # <<>> /\ is_openwork_managed_container(name)}
    IN SelectSeq(ContainerNames, LAMBDA name : name \in kept)

\* `&trimmed[..MAX_LEN]`: a byte index inside a character is not a boundary
IsCharBoundary(s, n) == \E k \in 0..Len(s) : ByteLen(SubSeq(s, 1, k)) = n

\* the slice panics
truncate_for_debug_panics(input) ==
    /\ ByteLen(Trim(input)) > DebugMaxLen
    /\ ~IsCharBoundary(Trim(input), DebugMaxLen)

truncate_for_debug(input) ==
    LET trimmed == Trim(input)
    IN IF ByteLen(trimmed) <= DebugMaxLen THEN trimmed
       ELSE (CHOOSE t \in {SubSeq(trimmed, 1, k) : k \in 0..Len(trimmed)} :
               ByteLen(t) = DebugMaxLen) \o <<"...[truncated]">>

\* format!("{}\n{}", stdout.trim(), stderr.trim()).trim()
CombinedOutput(stdout, stderr) == Trim(Trim(stdout) \o <<"\n">> \o Trim(stderr))

\* what `docker rm -f name` can answer: removed, refused with some text on
\* stderr, or docker could not be run at all
RmOutcomes ==
    {[ok |-> TRUE, status |-> 0, stdout |-> <<"n">>, stderr |-> <<>>]}
      \cup {[ok |-> TRUE, status |-> 1, stdout |-> <<>>, stderr |-> text] :
              text \in {<<>>, <<"e">>, <<"e", "e", "e", "e">>, <<"e", "w", "e">>}}
      \cup {[ok |-> FALSE, status |-> -1, stdout |-> <<>>, stderr |-> <<>>]}

\* the detail pushed to `errors` for a name that was not removed
RmDetail(outcome) ==
    IF ~outcome.ok THEN <<"Failed to run docker">>
    ELSE LET combined == CombinedOutput(outcome.stdout, outcome.stderr)
         IN IF combined = <<>> THEN <<"exit", outcome.status>>
            ELSE <<"exit", outcome.status>> \o truncate_for_debug(combined)

CleanupCall(lines) ==
    /\ task.pc = "idle"
    /\ LET candidates == list_openwork_managed_containers(lines)
       IN task' = [pc |-> IF candidates = <<>> THEN "cleanup_done" ELSE "cleanup",
                   listed |-> lines, candidates |-> candidates, i |-> 1,
                   attempted |-> <<>>, removed |-> <<>>, errors |-> <<>>]
    /\ UNCHANGED lifecycle

\* one iteration of `for name in &candidates`
CleanupRm(outcome) ==
    /\ task.pc = "cleanup"
    /\ LET name == task.candidates[task.i]
           last == task.i = Len(task.candidates)
           step == [task EXCEPT !.attempted = Append(@, name),
                                !.i = @ + 1,
                                !.pc = IF last THEN "cleanup_done" ELSE "cleanup"]
       IN task' =
            IF outcome.ok /\ outcome.status = 0
              THEN [step EXCEPT !.removed = Append(@, name)]
            ELSE IF outcome.ok
                      /\ CombinedOutput(outcome.stdout, outcome.stderr) # <<>>
                      /\ truncate_for_debug_panics(
                           CombinedOutput(outcome.stdout, outcome.stderr))
              THEN [step EXCEPT !.pc = "cleanup_panicked"]
            ELSE [step EXCEPT !.errors = Append(@, <<name, RmDetail(outcome)>>)]
    /\ UNCHANGED lifecycle

NextCleanup ==
    \/ \E lines \in Listings : CleanupCall(lines)
    \/ \E outcome \in RmOutcomes : CleanupRm(outcome)

SpecCleanup == Init /\ [][NextCleanup]_vars

(***************************************************************************)
(* SpecSandbox: orchestrator_start_detached and the progress events it     *)
(* emits.  Time is abstract: the deadline of the readiness wait passes at  *)
(* some point and stays passed, and the periodic tick and container check  *)
(* are due at arbitrary iterations.  Of the events emitted the model keeps *)
(* the first, the last and the set of stages.                              *)
(***************************************************************************)
NoEvents == [first |-> None, last |-> None, stages |-> {}]

\* emit_sandbox_progress(&app, &sandbox_run_id, stage, ..)
emit_sandbox_progress(events, stage) ==
    [first |-> IF IsSome(events.first) THEN events.first ELSE Some(stage),
     last |-> Some(stage),
     stages |-> events.stages \cup {stage}]

\* Option<String> of `docker inspect`: the container does not exist yet, or
\* its state
ContainerStates == {None, Some("created"), Some("running")}
\* the answers to GET /health
SandboxProbes == {"healthy", "http_error", "request_error"}
SandboxTimedOut == "Timed out waiting for OpenWork server"

\* lines 621-649: the early returns that come before the first event, then
\* the init event
SandboxCall(docker, valid) ==
    /\ task.pc = "idle"
    /\ task' =
         IF valid
           THEN [pc |-> "sb_config", docker |-> docker,
                 events |-> emit_sandbox_progress(NoEvents, "init"),
                 expired |-> FALSE, container_state |-> None,
                 probe_error |-> FALSE, last_error |-> None, result |-> None]
           ELSE [pc |-> "sb_done", docker |-> docker, events |-> NoEvents,
                 expired |-> FALSE, container_state |-> None,
                 probe_error |-> FALSE, last_error |-> None,
                 result |-> WaitErr("workspacePath is required")]
    /\ UNCHANGED lifecycle

\* lines 666-684: the docker.config event
SandboxConfig ==
    /\ task.pc = "sb_config"
    /\ task' = [task EXCEPT
                  !.pc = "sb_spawn",
                  !.events = IF task.docker
                               THEN emit_sandbox_progress(@, "docker.config")
                               ELSE @]
    /\ UNCHANGED lifecycle

\* lines 687-746: the spawn, `?` on its failure, the spawned event
SandboxSpawn(ok) ==
    /\ task.pc = "sb_spawn"
    /\ task' =
         IF ok
           THEN [task EXCEPT !.pc = "sb_check",
                             !.events = emit_sandbox_progress(@, "spawned")]
           ELSE [task EXCEPT
                   !.pc = "sb_done",
                   !.result = WaitErr("Failed to start openwork orchestrator")]
    /\ UNCHANGED lifecycle

\* `while start.elapsed() < Duration::from_millis(health_timeout_ms)`
SandboxCheck(now_expired) ==
    /\ task.pc = "sb_check"
    /\ task.expired => now_expired
    /\ task' = [task EXCEPT !.expired = now_expired,
                            !.pc = IF now_expired THEN "sb_after"
                                   ELSE "sb_container"]
    /\ UNCHANGED lifecycle

\* lines 761-805: the container check is not due, or docker_container_state
\* answers with a state or with an error
SandboxContainer(due, ok, state) ==
    /\ task.pc = "sb_container"
    /\ task' =
         IF ~(task.docker /\ due) THEN [task EXCEPT !.pc = "sb_probe"]
         ELSE IF ok
           THEN [task EXCEPT
                   !.pc = "sb_probe",
                   !.container_state = state,
                   !.probe_error = FALSE,
                   !.events = IF state # task.container_state
                                THEN emit_sandbox_progress(@, "docker.container")
                                ELSE @]
           ELSE [task EXCEPT
                   !.pc = "sb_probe",
                   !.probe_error = TRUE,
                   !.events = IF ~task.probe_error
                                THEN emit_sandbox_progress(@, "docker.inspect")
                                ELSE @]
    /\ UNCHANGED lifecycle

\* lines 807-846: the probe, the tick and the sleep
SandboxProbe(probe, tick) ==
    /\ task.pc = "sb_probe"
    /\ task' =
         IF probe = "healthy"
           THEN [task EXCEPT
                   !.pc = "sb_after",
                   !.last_error = None,
                   !.events = emit_sandbox_progress(@, "openwork.healthy")]
           ELSE [task EXCEPT
                   !.pc = "sb_check",
                   !.last_error = Some(probe),
                   !.events = IF tick
                                THEN emit_sandbox_progress(@, "openwork.waiting")
                                ELSE @]
    /\ UNCHANGED lifecycle

\* lines 849-901: `if start.elapsed() >= timeout` reads the clock again
SandboxAfter(now_expired) ==
    /\ task.pc = "sb_after"
    /\ task.expired => now_expired
    /\ task' =
         IF now_expired
           THEN [task EXCEPT
                   !.pc = "sb_done",
                   !.expired = TRUE,
                   !.events = emit_sandbox_progress(@, "error"),
                   !.result = WaitErr(UnwrapOr(task.last_error,
                                               SandboxTimedOut))]
           ELSE [task EXCEPT !.pc = "sb_done",
                             !.result = WaitOk("host")]
    /\ UNCHANGED lifecycle

NextSandbox ==
    \/ \E docker, valid \in BOOLEAN : SandboxCall(docker, valid)
    \/ SandboxConfig
    \/ \E ok \in BOOLEAN : SandboxSpawn(ok)
    \/ \E now_expired \in BOOLEAN : SandboxCheck(now_expired)
    \/ \E due, ok \in BOOLEAN, state \in ContainerStates :
         SandboxContainer(due, ok, state)
    \/ \E probe \in SandboxProbes, tick \in BOOLEAN : SandboxProbe(probe, tick)
    \/ \E now_expired \in BOOLEAN : SandboxAfter(now_expired)

SpecSandbox == Init /\ [][NextSandbox]_vars

(***************************************************************************)
(* SpecTimers: the clock of the readiness wait of                          *)
(* orchestrator_start_detached.  Times are in ms since `start`; the        *)
(* container inspection and the GET /health take the time the input        *)
(* gives them.                                                             *)
(***************************************************************************)
MaxTurns == 4

ContainerCheckIntervalMs == 1500
SandboxSleepMs == 200
DockerHealthTimeoutMs == 90000
HostHealthTimeoutMs == 12000
\* docker_container_state answers at once, or after the 2 s timeout of
\* docker inspect
InspectDurationsMs == {0, 2000}
\* GET /health answers at once, or late
HealthDurationsMs == {0, 3000}

\* lines 749-755: health_timeout_ms, start, last_container_check
TimerCall(wants_docker_sandbox) ==
    /\ task.pc = "idle"
    /\ task' = [pc |-> "tm_check", docker |-> wants_docker_sandbox,
                health_timeout_ms |-> IF wants_docker_sandbox
                                        THEN DockerHealthTimeoutMs
                                        ELSE HostHealthTimeoutMs,
                now |-> 0, turns |-> 0,
                last_container_check |-> 0 - 10000,
                inspect_ms |-> 0, health_end |-> None,
                health_gap |-> None, inspect_gap |-> None]
    /\ UNCHANGED lifecycle

\* line 757: the loop condition
TimerCheck ==
    /\ task.pc = "tm_check"
    /\ task.turns < MaxTurns
    /\ task' = IF task.now < task.health_timeout_ms
                 THEN [task EXCEPT !.pc = "tm_container", !.turns = @ + 1]
                 ELSE [task EXCEPT !.pc = "tm_done"]
    /\ UNCHANGED lifecycle

\* lines 760-805: the container inspection when it is due; inspect_gap is
\* the time since the inspection before it
TimerContainer(took) ==
    /\ task.pc = "tm_container"
    /\ task' =
         IF task.docker
            /\ task.now - task.last_container_check > ContainerCheckIntervalMs
           THEN [task EXCEPT
                   !.pc = "tm_health",
                   !.last_container_check = task.now,
                   !.inspect_gap = IF task.last_container_check < 0 THEN None
                                   ELSE Some(task.now - task.last_container_check),
                   !.inspect_ms = took,
                   !.now = @ + took]
           ELSE [task EXCEPT !.pc = "tm_health", !.inspect_ms = 0]
    /\ UNCHANGED lifecycle

\* lines 807-829: GET /health; health_gap is the time since the end of the
\* request before it
TimerHealth(took, healthy) ==
    /\ task.pc = "tm_health"
    /\ task' = [task EXCEPT
                  !.pc = IF healthy THEN "tm_done" ELSE "tm_sleep",
                  !.health_gap = IF IsSome(task.health_end)
                                   THEN Some(task.now - Unwrap(task.health_end))
                                   ELSE None,
                  !.health_end = Some(task.now + took),
                  !.now = @ + took]
    /\ UNCHANGED lifecycle

\* line 848: the sleep
TimerSleep ==
    /\ task.pc = "tm_sleep"
    /\ task' = [task EXCEPT !.pc = "tm_check", !.now = @ + SandboxSleepMs]
    /\ UNCHANGED lifecycle

NextTimers ==
    \/ \E wants_docker_sandbox \in BOOLEAN : TimerCall(wants_docker_sandbox)
    \/ TimerCheck
    \/ \E took \in InspectDurationsMs : TimerContainer(took)
    \/ \E took \in HealthDurationsMs, healthy \in BOOLEAN :
         TimerHealth(took, healthy)
    \/ TimerSleep

SpecTimers == Init /\ [][NextTimers]_vars

(***************************************************************************)
(* SpecBunEnv: sanitize_dns_result_order_args.  A runtime-options string   *)
(* is a sequence of characters in which a word of the vocabulary counts as *)
(* one character; "IPV4FIRST" is the word "ipv4first" in upper case.       *)
(***************************************************************************)
MaxRawLen == 5

SAFE_DNS_RESULT_ORDER == <<"verbatim">>
DnsFlag == "--dns-result-order"
DnsFlagEq == "--dns-result-order="
OptionChars ==
    {" ", "--hot", DnsFlag, DnsFlagEq, "ipv6first", "ipv4first", "IPV4FIRST"}
RawOptions == UNION {[1..n -> OptionChars] : n \in 0..MaxRawLen}

\* str::to_ascii_lowercase
to_ascii_lowercase(s) ==
    [i \in 1..Len(s) |-> IF s[i] = "IPV4FIRST" THEN "ipv4first" ELSE s[i]]

is_valid_dns_result_order(value) ==
    LET normalized == to_ascii_lowercase(Trim(value))
    IN  normalized \in {<<"ipv4first">>, <<"verbatim">>}

\* str::split_whitespace: the maximal runs of characters that are not
\* whitespace
RECURSIVE SplitFrom(_, _)
SplitFrom(raw, current) ==
    IF raw = <<>>
      THEN IF current = <<>> THEN <<>> ELSE <<current>>
    ELSE IF IsWhitespace(Head(raw))
      THEN IF current = <<>> THEN SplitFrom(Tail(raw), <<>>)
           ELSE <<current>> \o SplitFrom(Tail(raw), <<>>)
    ELSE SplitFrom(Tail(raw), Append(current, Head(raw)))

split_whitespace(raw) == SplitFrom(raw, <<>>)

\* token.strip_prefix("--dns-result-order=")
strip_prefix_eq(token) ==
    IF token # <<>> /\ Head(token) = DnsFlagEq THEN Some(Tail(token)) ELSE None

\* [..].join(" ")
RECURSIVE JoinSpace(_)
JoinSpace(tokens) ==
    IF tokens = <<>> THEN <<>>
    ELSE IF Len(tokens) = 1 THEN tokens[1]
    ELSE tokens[1] \o <<" ">> \o JoinSpace(Tail(tokens))

\* the loop of sanitize_dns_result_order_args from `index` on: the tokens
\* kept and whether anything was dropped
RECURSIVE SanitizeLoop(_, _)
SanitizeLoop(tokens, index) ==
    IF index > Len(tokens) THEN [kept |-> <<>>, changed |-> FALSE]
    ELSE
      LET token == tokens[index]
          order == strip_prefix_eq(token)
      IN  IF IsSome(order)
            THEN LET rest == SanitizeLoop(tokens, index + 1)
                 IN  IF is_valid_dns_result_order(Unwrap(order))
                       THEN [rest EXCEPT !.kept = <<token>> \o @]
                       ELSE [rest EXCEPT !.changed = TRUE]
          ELSE IF token = <<DnsFlag>>
            THEN LET rest == SanitizeLoop(tokens, index + 2)
                 IN  IF index + 1 <= Len(tokens)
                        /\ is_valid_dns_result_order(tokens[index + 1])
                       THEN [rest EXCEPT
                               !.kept = <<token, tokens[index + 1]>> \o @]
                       ELSE [rest EXCEPT !.changed = TRUE]
          ELSE LET rest == SanitizeLoop(tokens, index + 1)
               IN  [rest EXCEPT !.kept = <<token>> \o @]

sanitize_dns_result_order_args(raw) ==
    LET out == SanitizeLoop(split_whitespace(raw), 1)
    IN  IF ~out.changed THEN None ELSE Some(JoinSpace(out.kept))

SanitizeCall(raw) ==
    /\ task.pc = "idle"
    /\ task' = [pc |-> "sanitize", raw |-> raw]
    /\ UNCHANGED lifecycle

SanitizeReturn ==
    /\ task.pc = "sanitize"
    /\ task' = [pc |-> "sanitized", raw |-> task.raw,
                result |-> sanitize_dns_result_order_args(task.raw)]
    /\ UNCHANGED lifecycle

NextBunEnv ==
    \/ task.pc = "idle" /\ \E raw \in RawOptions : SanitizeCall(raw)
    \/ SanitizeReturn

SpecBunEnv == Init /\ [][NextBunEnv]_vars

(***************************************************************************)
(* SpecSpawn: the command lines and the environments of the child          *)
(* processes.  A command is its argument list and the variables set on it  *)
(* with Command::env; the child inherits every other variable from the     *)
(* application.  The variables that depend on the file system (PATH and    *)
(* the XDG directories) are left out.                                      *)
(***************************************************************************)
EnvKeys ==
    {"BUN_CONFIG_DNS_RESULT_ORDER", "BUN_OPTIONS", "NODE_OPTIONS",
     "OPENCODE_CLIENT", "OPENWORK", "OPENCODE_ROUTER_HEALTH_PORT",
     "OPENCODE_SERVER_USERNAME", "OPENCODE_SERVER_PASSWORD",
     "DOWHAT_OPENCODE_USERNAME", "DOWHAT_OPENCODE_PASSWORD"}

\* the application's own environment
InheritedOptions ==
    {None, Some(<<"--hot">>), Some(<<DnsFlagEq, "ipv6first", " ", "--hot">>),
     Some(<<DnsFlag, " ", "ipv4first">>)}
InheritedDnsOrders == {None, Some(SAFE_DNS_RESULT_ORDER), Some(<<"ipv6first">>)}
ParentEnvs ==
    {[k \in EnvKeys |->
        CASE k = "BUN_CONFIG_DNS_RESULT_ORDER" -> order
          [] k = "BUN_OPTIONS" -> bun
          [] k = "NODE_OPTIONS" -> node
          [] OTHER -> None] :
       order \in InheritedDnsOrders, bun \in InheritedOptions,
       node \in InheritedOptions}

\* the credentials engine_start generates when DOWHAT_OPENCODE_AUTH is on
GeneratedUsername == <<"opencode">>
GeneratedPassword == <<"uuid">>
\* the credentials the UI passes to opencodeRouter_start
RouterCredentials == {None, Some(<<" ">>), Some(GeneratedPassword)}

NoEnv == [k \in EnvKeys |-> None]

\* command.env(key, value)
SetEnv(command, key, value) == [command EXCEPT !.env[key] = Some(value)]

\* `if let Some(v) = value { if !v.trim().is_empty() { command.env(key, v) } }`
SetEnvIfPresent(command, key, value) ==
    IF IsSome(value) /\ Trim(Unwrap(value)) # <<>>
      THEN SetEnv(command, key, Unwrap(value))
      ELSE command

\* `if let Some(v) = value { if !v.trim().is_empty() { args.push(flag); args.push(v) } }`
PushArgIfPresent(args, flag, value) ==
    IF IsSome(value) /\ Trim(Unwrap(value)) # <<>>
      THEN args \o <<<<flag>>, Unwrap(value)>>
      ELSE args

bun_env_overrides(parent) ==
    LET sanitized(key) ==
          IF IsSome(parent[key])
             /\ IsSome(sanitize_dns_result_order_args(Unwrap(parent[key])))
            THEN <<<<key, Unwrap(sanitize_dns_result_order_args(
                                    Unwrap(parent[key])))>>>>
            ELSE <<>>
    IN  <<<<"BUN_CONFIG_DNS_RESULT_ORDER", SAFE_DNS_RESULT_ORDER>>>>
          \o sanitized("BUN_OPTIONS") \o sanitized("NODE_OPTIONS")

\* `for (key, value) in overrides { command = command.env(key, value) }`
RECURSIVE ApplyEnv(_, _)
ApplyEnv(command, overrides) ==
    IF overrides = <<>> THEN command
    ELSE ApplyEnv(SetEnv(command, Head(overrides)[1], Head(overrides)[2]),
                  Tail(overrides))

NewCommand(site, args) == [site |-> site, args |-> args, env |-> NoEnv]

build_engine_args ==
    <<<<"serve">>, <<"--hostname">>, <<"host">>, <<"--port">>, <<"port">>,
      <<"--cors">>, <<"*">>>>

spawn_engine(parent, opencode_username, opencode_password) ==
    LET c0 == NewCommand("engine", build_engine_args)
        c1 == SetEnv(SetEnv(c0, "OPENCODE_CLIENT", <<"openwork">>),
                     "OPENWORK", <<"1">>)
        c2 == ApplyEnv(c1, bun_env_overrides(parent))
        c3 == SetEnvIfPresent(c2, "OPENCODE_SERVER_USERNAME", opencode_username)
    IN  SetEnvIfPresent(c3, "OPENCODE_SERVER_PASSWORD", opencode_password)

spawn_orchestrator_daemon(parent, opencode_username, opencode_password) ==
    LET a0 == <<<<"daemon">>, <<"run">>, <<"--data-dir">>, <<"dir">>,
                <<"--daemon-host">>, <<"host">>, <<"--daemon-port">>,
                <<"port">>, <<"--opencode-bin">>, <<"bin">>,
                <<"--opencode-host">>, <<"host">>, <<"--opencode-workdir">>,
                <<"dir">>, <<"--allow-external">>,
                <<"--opencode-port">>, <<"port">>>>
        a1 == PushArgIfPresent(a0, "--opencode-username", opencode_username)
        a2 == PushArgIfPresent(a1, "--opencode-password", opencode_password)
        a3 == a2 \o <<<<"--cors">>, <<"*">>>>
    IN  ApplyEnv(NewCommand("daemon", a3), bun_env_overrides(parent))

build_openwork_args ==
    <<<<"--host">>, <<"host">>, <<"--port">>, <<"port">>, <<"--token">>,
      <<"token">>, <<"--host-token">>, <<"host-token">>, <<"--cors">>,
      <<"*">>, <<"--approval">>, <<"auto">>, <<"--workspace">>, <<"dir">>,
      <<"--opencode-base-url">>, <<"url">>, <<"--opencode-directory">>,
      <<"dir">>>>

spawn_openwork_server(parent, opencode_username, opencode_password) ==
    LET c0 == NewCommand("relay", build_openwork_args)
        c1 == SetEnvIfPresent(c0, "DOWHAT_OPENCODE_USERNAME", opencode_username)
        c2 == SetEnvIfPresent(c1, "DOWHAT_OPENCODE_PASSWORD", opencode_password)
    IN  ApplyEnv(c2, bun_env_overrides(parent))

build_opencode_router_args ==
    <<<<"serve">>, <<"dir">>, <<"--opencode-url">>, <<"url">>>>

spawn_opencode_router(parent, opencode_username, opencode_password) ==
    LET c0 == SetEnv(NewCommand("router", build_opencode_router_args),
                     "OPENCODE_ROUTER_HEALTH_PORT", <<"port">>)
        c1 == SetEnvIfPresent(c0, "OPENCODE_SERVER_USERNAME", opencode_username)
        c2 == SetEnvIfPresent(c1, "OPENCODE_SERVER_PASSWORD", opencode_password)
    IN  ApplyEnv(c2, bun_env_overrides(parent))

\* the spawn of orchestrator_start_detached: arguments only
spawn_detached_host(wants_docker_sandbox) ==
    LET args == <<<<"start">>, <<"--workspace">>, <<"dir">>, <<"--approval">>,
                  <<"auto">>, <<"--no-opencode-auth">>, <<"--opencode-router">>,
                  <<"true">>, <<"--detach">>, <<"--openwork-host">>,
                  <<"0.0.0.0">>, <<"--openwork-port">>, <<"port">>,
                  <<"--openwork-token">>, <<"token">>,
                  <<"--openwork-host-token">>, <<"host-token">>,
                  <<"--run-id">>, <<"run">>>>
    IN  NewCommand("host",
                   IF wants_docker_sandbox
                     THEN args \o <<<<"--sandbox">>, <<"docker">>>>
                     ELSE args)

\* the value of a variable in the environment of the child
ChildEnv(parent, command, key) ==
    IF IsSome(command.env[key]) THEN command.env[key] ELSE parent[key]

\* a mutant of engine_start_prelude: the credentials come first
engine_start_prelude_credentials_first == <<"credentials", "port engine">>

\* engine_start, lines 277-290: find_free_port for the engine, then the
\* username and the password
engine_start_prelude == <<"port engine", "credentials">>

\* engine_start: the credentials of the session; `order` is the order of the
\* allocations, generations and spawns so far
SpawnStart(parent, runtime, enable_auth) ==
    /\ task.pc = "idle"
    /\ task' = [pc |-> "spawn_engine", parent |-> parent, runtime |-> runtime,
                username |-> IF enable_auth THEN Some(GeneratedUsername) ELSE None,
                password |-> IF enable_auth THEN Some(GeneratedPassword) ELSE None,
                commands |-> <<>>, order |-> engine_start_prelude]
    /\ UNCHANGED lifecycle

\* engine_start: the daemon in Orchestrator mode, the engine in Direct mode;
\* `?` on a failed spawn
SpawnEngine(ok) ==
    /\ task.pc = "spawn_engine"
    /\ task' =
         IF ~ok THEN [task EXCEPT !.pc = "spawn_done"]
         ELSE [task EXCEPT
                 !.pc = "spawn_relay",
                 !.order = @ \o (IF task.runtime = "Orchestrator"
                                   THEN <<"port daemon", "spawn daemon">>
                                   ELSE <<"spawn engine">>),
                 !.commands =
                    Append(@, IF task.runtime = "Orchestrator"
                                THEN spawn_orchestrator_daemon(
                                       task.parent, task.username, task.password)
                                ELSE spawn_engine(
                                       task.parent, task.username, task.password))]
    /\ UNCHANGED lifecycle

\* engine_start: start_openwork_server; a failed spawn is only logged
SpawnRelay(ok) ==
    /\ task.pc = "spawn_relay"
    /\ task' = [task EXCEPT
                  !.pc = "spawn_done",
                  !.order = @ \o <<"port relay", "tokens relay">>
                              \o (IF ok THEN <<"spawn relay">> ELSE <<>>),
                  !.commands =
                     IF ok
                       THEN Append(@, spawn_openwork_server(
                                        task.parent, task.username, task.password))
                       ELSE @]
    /\ UNCHANGED lifecycle

\* opencodeRouter_start
SpawnRouter(parent, opencode_username, opencode_password) ==
    /\ task.pc = "idle"
    /\ task' = [pc |-> "spawn_done", parent |-> parent, runtime |-> "Router",
                username |-> opencode_username, password |-> opencode_password,
                commands |-> <<spawn_opencode_router(
                                 parent, opencode_username, opencode_password)>>,
                order |-> <<"spawn router">>]
    /\ UNCHANGED lifecycle

\* orchestrator_start_detached
SpawnDetached(parent, wants_docker_sandbox) ==
    /\ task.pc = "idle"
    /\ task' = [pc |-> "spawn_done", parent |-> parent, runtime |-> "Detached",
                username |-> None, password |-> None,
                commands |-> <<spawn_detached_host(wants_docker_sandbox)>>,
                order |-> <<"port host", "tokens host", "spawn host">>]
    /\ UNCHANGED lifecycle

NextSpawn ==
    \/ \E parent \in ParentEnvs, runtime \in {"Direct", "Orchestrator"},
          enable_auth \in BOOLEAN : SpawnStart(parent, runtime, enable_auth)
    \/ \E ok \in BOOLEAN : SpawnEngine(ok)
    \/ \E ok \in BOOLEAN : SpawnRelay(ok)
    \/ \E parent \in ParentEnvs, opencode_username, opencode_password \in
          RouterCredentials :
         SpawnRouter(parent, opencode_username, opencode_password)
    \/ \E parent \in ParentEnvs, wants_docker_sandbox \in BOOLEAN :
         SpawnDetached(parent, wants_docker_sandbox)

SpecSpawn == Init /\ [][NextSpawn]_vars

(***************************************************************************)
(* SpecResolve: resolve_engine_path.  Paths are sequences of components as *)
(* in SpecDocker; the notes the functions collect for the diagnostics are  *)
(* left out.                                                               *)
(***************************************************************************)
OpencodeName == <<"/opencode">>
OverrideBin == <<"/o/opencode-custom">>
CurrentBinDir == <<"/app/bin">>
ResourceDir == <<"/app/res">>
HomeDir == <<"/home">>
PathDirA == <<"/p">>
UsrLocalBin == <<"/usr/local/bin">>

\* the values of OPENCODE_BIN_PATH
EngineOverrideSettings ==
    {None, Some(<<" ">>), Some(OverrideBin), Some(<<" ">> \o OverrideBin)}
\* env::split_paths of PATH
EnginePathSettings ==
    {<<>>, <<PathDirA>>, <<UsrLocalBin, PathDirA>>, <<PathDirA, UsrLocalBin>>}

\* candidate_opencode_paths, not(windows)
candidate_opencode_paths(home) ==
    (IF IsSome(home)
       THEN <<Unwrap(home) \o <<"/.opencode", "/bin">> \o OpencodeName>>
       ELSE <<>>)
      \o <<<<"/opt/homebrew/bin">> \o OpencodeName,
           UsrLocalBin \o OpencodeName,
           <<"/usr/bin">> \o OpencodeName,
           UsrLocalBin \o OpencodeName>>

\* the candidates of resolve_sidecar_candidate
sidecar_candidates(resource_dir, current_bin_dir) ==
    (IF IsSome(current_bin_dir)
       THEN <<Unwrap(current_bin_dir) \o OpencodeName>> ELSE <<>>)
      \o (IF IsSome(resource_dir)
            THEN <<Unwrap(resource_dir) \o <<"/sidecars">> \o OpencodeName,
                   Unwrap(resource_dir) \o OpencodeName>>
            ELSE <<>>)
      \o <<<<"src-tauri/sidecars">> \o OpencodeName>>

\* the files that may exist
EngineFiles ==
    SUBSET ({OverrideBin, PathDirA \o OpencodeName}
              \cup {candidate_opencode_paths(Some(HomeDir))[i] : i \in 1..3}
              \cup {sidecar_candidates(Some(ResourceDir), Some(CurrentBinDir))[i] :
                      i \in 1..4})

EngineEnvs ==
    {[override |-> o, prefer_sidecar |-> ps, resource_dir |-> rd,
      current_bin_dir |-> bd, path |-> pa, home |-> h, files |-> f] :
       o \in EngineOverrideSettings, ps \in BOOLEAN,
       rd \in {None, Some(ResourceDir)}, bd \in {None, Some(CurrentBinDir)},
       pa \in EnginePathSettings, h \in {None, Some(HomeDir)},
       f \in EngineFiles}

\* `for candidate in candidates { if candidate.is_file() { return Some(candidate) } }`
RECURSIVE FirstFile(_, _)
FirstFile(candidates, files) ==
    IF candidates = <<>> THEN None
    ELSE IF Head(candidates) \in files THEN Some(Head(candidates))
    ELSE FirstFile(Tail(candidates), files)

resolve_opencode_env_override_unchecked(env) ==
    IF IsSome(env.override) THEN Some(Trim(Unwrap(env.override))) ELSE None

resolve_opencode_env_override(env) ==
    IF IsSome(env.override)
       /\ Trim(Unwrap(env.override)) # <<>>
       /\ Trim(Unwrap(env.override)) \in env.files
      THEN Some(Trim(Unwrap(env.override)))
      ELSE None

\* resolve_in_path(OPENCODE_EXECUTABLE)
resolve_in_path(env) ==
    FirstFile([i \in 1..Len(env.path) |-> env.path[i] \o OpencodeName], env.files)

\* the path and the in_path flag
resolve_opencode_executable_impl(env) ==
    IF IsSome(resolve_in_path(env))
      THEN [path |-> resolve_in_path(env), in_path |-> TRUE]
      ELSE [path |-> FirstFile(candidate_opencode_paths(env.home), env.files),
            in_path |-> FALSE]

resolve_opencode_executable(env) ==
    IF IsSome(resolve_opencode_env_override(env))
      THEN [path |-> resolve_opencode_env_override(env), in_path |-> FALSE]
      ELSE resolve_opencode_executable_impl(env)

resolve_sidecar_candidate(env) ==
    IF ~env.prefer_sidecar THEN None
    ELSE FirstFile(sidecar_candidates(env.resource_dir, env.current_bin_dir),
                   env.files)

resolve_engine_path(env) ==
    IF ~env.prefer_sidecar THEN resolve_opencode_executable(env)
    ELSE IF IsSome(resolve_opencode_env_override(env))
      THEN [path |-> resolve_opencode_env_override(env), in_path |-> FALSE]
    ELSE IF IsSome(resolve_sidecar_candidate(env))
      THEN [path |-> resolve_sidecar_candidate(env), in_path |-> FALSE]
    ELSE resolve_opencode_executable_impl(env)

ResolveCall(env) ==
    /\ task.pc = "idle"
    /\ task' = [pc |-> "resolve", env |-> env]
    /\ UNCHANGED lifecycle

ResolveReturn ==
    /\ task.pc = "resolve"
    /\ task' = [pc |-> "resolved", env |-> task.env,
                result |-> resolve_engine_path(task.env)]
    /\ UNCHANGED lifecycle

NextResolve ==
    \/ task.pc = "idle" /\ \E env \in EngineEnvs : ResolveCall(env)
    \/ ResolveReturn

SpecResolve == Init /\ [][NextResolve]_vars

(***************************************************************************)
(* SpecAppend: one append to an output buffer, for every buffer within the *)
(* cap and every chunk, in a build with and without overflow checks.       *)
(***************************************************************************)
MaxChunkLen == 3

TextChars == {"a", "b", "w"}
Texts(n) == UNION {[1..k -> TextChars] : k \in 0..n}
\* a buffer is None or a text truncate_output has let through
Buffers ==
    {None} \cup {Some(t) : t \in {u \in Texts(OutputCap) :
                                   truncate_output(u, OutputCap) = u}}

AppendCall(buf, chunk) ==
    /\ task.pc = "idle"
    /\ task' = [pc |-> "append", buf |-> buf, chunk |-> chunk]
    /\ UNCHANGED lifecycle

\* `state.last_stdout = Some(truncate_output(&next, 8000))`; with overflow
\* checks the subtraction of truncate_output panics before the assignment
AppendReturn(overflow_checks) ==
    /\ task.pc = "append"
    /\ task' =
         IF overflow_checks
            /\ Overflows(UnwrapOrDefault(task.buf) \o task.chunk, OutputCap)
           THEN [pc |-> "append_panicked", buf |-> task.buf,
                 chunk |-> task.chunk, result |-> task.buf]
           ELSE [pc |-> "appended", buf |-> task.buf, chunk |-> task.chunk,
                 result |-> AppendOutput(task.buf, task.chunk)]
    /\ UNCHANGED lifecycle

NextAppend ==
    \/ task.pc = "idle" /\ \E buf \in Buffers, chunk \in Texts(MaxChunkLen) :
         AppendCall(buf, chunk)
    \/ \E overflow_checks \in BOOLEAN : AppendReturn(overflow_checks)

SpecAppend == Init /\ [][NextAppend]_vars

(***************************************************************************)
(* SpecLocks: the mutexes.  A program is the sequence of lock operations   *)
(* of one command or of one iteration of a draining task: a blocking       *)
(* lock, a try_lock, the drop of a guard.  Two threads run commands, a     *)
(* third runs the draining tasks.  The locks are the four registries and   *)
(* `output`, the buffer engine_start shares with its draining task for     *)
(* the warm-up.                                                            *)
(***************************************************************************)
Locks == {"engine", "orchestrator", "openwork", "router", "output"}
CommandThreads == {1, 2}
DrainThreads == {3}
LockThreads == CommandThreads \cup DrainThreads

\* `let guard = m.lock(); body; drop(guard)`
Scoped(r, body) == << <<"lock", r>> >> \o body \o << <<"unlock", r>> >>
\* `if let Ok(mut state) = m.try_lock() { .. }`
Tried(r) == << <<"try", r>>, <<"unlock", r>> >>

\* engine_info: the engine lock, and under it the daemon's lock three times
engine_info_locks(runtime) ==
    Scoped("engine",
           IF runtime = "Orchestrator"
             THEN Scoped("orchestrator", <<>>) \o Scoped("orchestrator", <<>>)
                    \o Scoped("orchestrator", <<>>)
             ELSE <<>>)

\* a mutant of engine_stop_locks: the daemon's lock is taken first
engine_stop_locks_daemon_first ==
    Scoped("orchestrator", Scoped("engine", Scoped("openwork", <<>>)))

\* engine_stop
engine_stop_locks ==
    Scoped("engine", Scoped("orchestrator", <<>>) \o Scoped("openwork", <<>>))

\* start_openwork_server
start_openwork_server_locks == Scoped("openwork", <<>>)

\* engine_start
engine_start_locks(runtime, relay_ok) ==
    IF runtime = "Direct"
      THEN Scoped("engine", Scoped("orchestrator", <<>>)
                              \o Scoped("output", <<>>)
                              \o start_openwork_server_locks)
      ELSE Scoped("engine", Scoped("orchestrator", <<>>))
             \o Scoped("orchestrator", <<>>)
             \o Scoped("engine", <<>>)
             \o start_openwork_server_locks
             \o (IF relay_ok THEN <<>> ELSE Scoped("engine", <<>>))

\* orchestrator_status
orchestrator_status_locks ==
    Scoped("orchestrator", <<>>) \o Scoped("orchestrator", <<>>)

\* opencodeRouter_start and opencodeRouter_stop
opencodeRouter_start_locks == Scoped("router", <<>>)

\* opencodeRouter_info
opencodeRouter_info_locks ==
    Scoped("router", <<>>) \o Scoped("router", <<>>) \o Scoped("router", <<>>)

\* the cleanup on exit
exit_cleanup_locks ==
    Scoped("engine", <<>>) \o Scoped("orchestrator", <<>>)
      \o Scoped("openwork", <<>>) \o Scoped("router", <<>>)

\* one event in the draining task of a process of registry r
drain_locks(r) ==
    IF r = "engine" THEN Scoped("output", <<>>) \o Tried("engine")
    ELSE Tried(r)

CommandPrograms ==
    {engine_info_locks(runtime) : runtime \in Runtimes}
      \cup {engine_start_locks(runtime, relay_ok) :
              runtime \in Runtimes, relay_ok \in BOOLEAN}
      \cup {engine_stop_locks, start_openwork_server_locks,
            orchestrator_status_locks, opencodeRouter_start_locks,
            opencodeRouter_info_locks, exit_cleanup_locks}

DrainPrograms == {drain_locks(r) : r \in Registries}

NoLocks ==
    [pc |-> "locks", prog |-> [t \in LockThreads |-> <<>>],
     stack |-> [t \in LockThreads |-> <<>>]]

LockState == IF task.pc = "locks" THEN task ELSE NoLocks

\* the locks a thread holds, and the thread that holds a lock (0: nobody)
HeldBy(t) == {LockState.stack[t][i] : i \in 1..Len(LockState.stack[t])}
OwnerOf(r) ==
    IF \E t \in LockThreads : r \in HeldBy(t)
      THEN CHOOSE t \in LockThreads : r \in HeldBy(t)
      ELSE 0

\* a thread starts a command, or a draining task receives an event
LockCall(t, locks) ==
    /\ task.pc \in {"idle", "locks"}
    /\ LockState.prog[t] = <<>>
    /\ task' = [LockState EXCEPT !.prog[t] = locks]
    /\ UNCHANGED lifecycle

\* Mutex::lock: the thread waits until the mutex is free
LockAcquire(t) ==
    /\ task.pc = "locks"
    /\ task.prog[t] # <<>>
    /\ Head(task.prog[t])[1] = "lock"
    /\ OwnerOf(Head(task.prog[t])[2]) = 0
    /\ task' = [task EXCEPT !.prog[t] = Tail(@),
                            !.stack[t] = Append(@, Head(task.prog[t])[2])]
    /\ UNCHANGED lifecycle

\* Mutex::try_lock: the block is skipped when the mutex is not free
LockTry(t) ==
    /\ task.pc = "locks"
    /\ task.prog[t] # <<>>
    /\ Head(task.prog[t])[1] = "try"
    /\ task' = IF OwnerOf(Head(task.prog[t])[2]) = 0
                 THEN [task EXCEPT !.prog[t] = Tail(@),
                                   !.stack[t] = Append(@, Head(task.prog[t])[2])]
                 ELSE [task EXCEPT !.prog[t] = Tail(Tail(@))]
    /\ UNCHANGED lifecycle

\* the guard goes out of scope
LockRelease(t) ==
    /\ task.pc = "locks"
    /\ task.prog[t] # <<>>
    /\ Head(task.prog[t])[1] = "unlock"
    /\ task' = [task EXCEPT
                  !.prog[t] = Tail(@),
                  !.stack[t] = SelectSeq(@, LAMBDA r : r # Head(task.prog[t])[2])]
    /\ UNCHANGED lifecycle

NextLocks ==
    \/ \E t \in CommandThreads, locks \in CommandPrograms : LockCall(t, locks)
    \/ \E t \in DrainThreads, locks \in DrainPrograms : LockCall(t, locks)
    \/ \E t \in LockThreads : LockAcquire(t)
    \/ \E t \in LockThreads : LockTry(t)
    \/ \E t \in LockThreads : LockRelease(t)

SpecLocks == Init /\ [][NextLocks]_vars

(***************************************************************************)
(* SpecTimeout: run_local_command_with_timeout.  The child writes to two   *)
(* pipes; a reader thread per pipe reads to the end of the file, which     *)
(* comes when every holder of the write end has closed it: the child, and  *)
(* any descendant of the child that inherited the pipe.  Time is counted   *)
(* in polls of 25 ms; the timeout has elapsed after MaxPolls polls at the  *)
(* latest.                                                                 *)
(***************************************************************************)
MaxPolls == 2

NoCommand ==
    [pc |-> "idle", child |-> "none", holders |-> {}, reading |-> {},
     joined |-> {}, polls |-> 0, timed_out |-> FALSE, wait_failed |-> FALSE,
     result |-> None]

\* Command::spawn, and the two reader threads
TimeoutCall(spawn_ok, holders) ==
    /\ task.pc = "idle"
    /\ task' = IF spawn_ok
                 THEN [NoCommand EXCEPT !.pc = "poll", !.child = "running",
                                        !.holders = holders,
                                        !.reading = Streams]
                 ELSE [NoCommand EXCEPT !.pc = "returned",
                                        !.result = Some("Failed to run")]
    /\ UNCHANGED lifecycle

\* the command exits by itself
ChildExits ==
    /\ task.pc \in {"poll", "join_stdout", "join_stderr"}
    /\ task.child = "running"
    /\ task' = [task EXCEPT !.child = "exited"]
    /\ UNCHANGED lifecycle

\* the descendants of the command exit
DescendantsExit ==
    /\ task.pc \in {"poll", "join_stdout", "join_stderr"}
    /\ task.holders # {}
    /\ task' = [task EXCEPT !.holders = {}]
    /\ UNCHANGED lifecycle

\* read_to_end of a reader thread returns: nobody holds the write end
ReaderEnds(stream) ==
    /\ task.pc \in {"poll", "join_stdout", "join_stderr"}
    /\ stream \in task.reading
    /\ task.child # "running"
    /\ stream \notin task.holders
    /\ task' = [task EXCEPT !.reading = @ \ {stream}]
    /\ UNCHANGED lifecycle

\* one turn of the loop: try_wait, the timeout, the sleep
TimeoutPoll(wait_ok, elapsed) ==
    /\ task.pc = "poll"
    /\ task' =
         IF ~wait_ok
           THEN [task EXCEPT !.pc = "join_stdout", !.child = "reaped",
                             !.wait_failed = TRUE]
         ELSE IF task.child = "exited"
           THEN [task EXCEPT !.pc = "join_stdout", !.child = "reaped"]
         ELSE IF elapsed \/ task.polls >= MaxPolls
           THEN [task EXCEPT !.pc = "join_stdout", !.child = "reaped",
                             !.timed_out = TRUE]
         ELSE [task EXCEPT !.polls = @ + 1]
    /\ UNCHANGED lifecycle

\* stdout_handle.join()
JoinStdout ==
    /\ task.pc = "join_stdout"
    /\ "Stdout" \notin task.reading
    /\ task' = [task EXCEPT !.pc = "join_stderr", !.joined = @ \cup {"Stdout"}]
    /\ UNCHANGED lifecycle

\* stderr_handle.join(), and the result
JoinStderr ==
    /\ task.pc = "join_stderr"
    /\ "Stderr" \notin task.reading
    /\ task' = [task EXCEPT
                  !.pc = "returned",
                  !.joined = @ \cup {"Stderr"},
                  !.result = IF task.wait_failed THEN Some("Failed to wait")
                             ELSE IF task.timed_out THEN Some("Timed out")
                             ELSE Some("Ok")]
    /\ UNCHANGED lifecycle

\* the caller goes on
TimeoutReturn ==
    /\ task.pc = "returned"
    /\ task' = NoCommand
    /\ UNCHANGED lifecycle

\* the steps of the function and of its reader threads
TimeoutSteps ==
    \/ \E wait_ok \in BOOLEAN, elapsed \in BOOLEAN : TimeoutPoll(wait_ok, elapsed)
    \/ \E stream \in Streams : ReaderEnds(stream)
    \/ JoinStdout
    \/ JoinStderr

NextTimeout ==
    \/ task.pc = "idle" /\ \E spawn_ok \in BOOLEAN, holders \in SUBSET Streams :
                             TimeoutCall(spawn_ok, holders)
    \/ ChildExits
    \/ DescendantsExit
    \/ \E wait_ok \in BOOLEAN, elapsed \in BOOLEAN : TimeoutPoll(wait_ok, elapsed)
    \/ \E stream \in Streams : ReaderEnds(stream)
    \/ JoinStdout
    \/ JoinStderr
    \/ TimeoutReturn

\* the threads of the function are scheduled; the command and its
\* descendants exit when they please
SpecTimeout == Init /\ [][NextTimeout]_vars /\ WF_vars(TimeoutSteps)

(***************************************************************************)
(* Properties.                                                             *)
(***************************************************************************)
\* the state stop_locked is said to leave: every field at its default but
\* the exited latch, which stop sets
StoppedState(r) == [Default(r) EXCEPT !.child_exited = TRUE]

\* in the step, the process behind the handle (if any) is killed
KilledInStep(child) == IsSome(child) => ~procs'[Unwrap(child)].alive

\* the position of a start at which it spawns the process of registry r
SpawnPc(r) ==
    CASE r \in {"engine", "orchestrator"} -> "es_spawn"
      [] r = "openwork" -> "ow_spawn"
      [] r = "router" -> "rt_spawn"

HandleExclusivity == ~(IsSome(engine.child) /\ IsSome(orchestrator.child))

\* C2: mode exclusivity.  At most one of the engine registry and the daemon
\* registry holds a handle, and no engine process spawned in Direct mode is
\* alive together with a daemon process.
ModeExclusivity ==
    /\ HandleExclusivity
    /\ ~(AliveOf("engine") # {} /\ AliveOf("orchestrator") # {})

\* C3: when an engine_start returns Ok, no process spawned by the last
\* engine_start that returned Ok before it is alive.
NoSurvivorOfPreviousStart ==
    [][ (pc # "unlock" /\ pc' = "unlock" /\ ret'.op = "engine_start" /\ ret'.ok)
          => \A p \in started : ~procs'[p].alive ]_vars

\* C4: between commands, every live process is the one its registry's handle
\* references (so at most one per subsystem is alive, and none is orphaned).
NoOrphan ==
    pc = "idle" => \A p \in Pids : Alive(p) => Reg(procs[p].reg).child = Some(p)

\* C5: stop is idempotent: from the state of every registry, stop applied
\* twice leaves the state that stop applied once leaves.
StopIdempotent ==
    \A r \in Registries :
      LET once == StopLocked(r, Reg(r))
      IN StopLocked(r, once) = once

\* stop has just been applied to a registry that a start had filled
StopIdempotent_Witness ==
    \E r \in Registries :
      /\ started # {}
      /\ ret.op = StopOp(r)
      /\ Reg(r) = StoppedState(r)
      /\ StopLocked(r, Reg(r)) = Reg(r)

\* C6 as stated: after stop, every field of the registry state, the exited
\* latch included, equals its value in a default registry.
StopResetsToDefault ==
    \A r \in Registries : ret.op = StopOp(r) => Reg(r) = Default(r)

\* C6 as the code has it: after stop, every field but the exited latch equals
\* its default and the latch is set; a snapshot that follows reports no
\* process and changes nothing.
StopResetsAllButLatch ==
    \A r \in Registries :
      ret.op = StopOp(r) =>
        /\ Reg(r) = StoppedState(r)
        /\ r \in Snapshotted =>
             SnapshotLocked(r, Reg(r)) =
               [state |-> Reg(r), running |-> FALSE, pid |-> None]

\* stop has just been applied to the engine registry, after a start
StopResetsAllButLatch_Witness ==
    /\ started # {}
    /\ ret.op = StopOp("engine")
    /\ engine.child_exited
    /\ ~IsSome(engine.opencode_password)

\* C7: snapshot reports running with the pid exactly when a handle is held
\* and the latch is unset; it discards a latched handle and changes nothing
\* else.
SnapshotSemantics ==
    [][ \A r \in Snapshotted :
          ret'.op = SnapshotOp(r) =>
            LET before == Reg(r)
                after == Reg(r)'
                live == IsSome(before.child) /\ ~before.child_exited
            IN /\ ret'.running = live
               /\ ret'.pid = IF live THEN before.child ELSE None
               /\ after = IF IsSome(before.child) /\ before.child_exited
                            THEN [before EXCEPT !.child = None]
                            ELSE before
      ]_vars

\* a snapshot has discarded the handle of a process whose exit was latched:
\* the session's port is still there, the handle is not
SnapshotSemantics_Witness ==
    /\ ret.op = SnapshotOp("openwork")
    /\ ~ret.running
    /\ openwork.child_exited
    /\ ~IsSome(openwork.child)
    /\ IsSome(openwork.port)

\* C8: once the process a registry references has terminated and its exit
\* event has been consumed, the registry's exited latch is set.
ExitLatched ==
    \A r \in Registries : \A p \in Pids :
      (Reg(r).child = Some(p) /\ ~Alive(p) /\ procs[p].chan = <<>>)
        => Reg(r).child_exited

BufferLen(buf) == CharCount(UnwrapOrDefault(buf))

\* C9: no output buffer is ever longer, in characters, than the cap.
BufferBounded ==
    \A r \in Registries :
      /\ BufferLen(Reg(r).last_stdout) <= OutputCap
      /\ BufferLen(Reg(r).last_stderr) <= OutputCap

\* a buffer is full and holds the end of one chunk and the whole of the
\* next, which only the truncation of a longer text leaves
BufferBounded_Witness ==
    \E r \in Registries :
      /\ ret.op = EventOp(r)
      /\ BufferLen(Reg(r).last_stdout) = OutputCap
      /\ UnwrapOrDefault(Reg(r).last_stdout)[BufferLen(Reg(r).last_stdout)] = "a"
      /\ UnwrapOrDefault(Reg(r).last_stdout)[BufferLen(Reg(r).last_stdout) - 1] = "c"

\* C10: while a registry references the process its last start spawned and
\* the process has not been seen to exit, each output buffer is a suffix of
\* the text the draining task has received from that process on the stream.
OutputIsSuffix ==
    \A r \in Registries :
      (IsSome(Reg(r).child) /\ Reg(r).child = hist[r].pid /\ ~Reg(r).child_exited)
        => /\ IsSuffix(UnwrapOrDefault(Reg(r).last_stdout), hist[r].out)
           /\ IsSuffix(UnwrapOrDefault(Reg(r).last_stderr), hist[r].err)

\* a probe answered with a parsed payload whose ok flag is set
Healthy(outcome) == outcome.kind = "Ok" /\ outcome.ok
\* the error of a probe that was not healthy
ErrorOf(outcome) ==
    IF outcome.kind = "Ok" THEN UnhealthyMessage ELSE outcome.data
Max(a, b) == IF a >= b THEN a ELSE b

\* C11: in wait_for_orchestrator, a probe that answers with ok = true ends
\* the wait in Ready with that probe's payload, whatever errors earlier probes
\* left (none is surfaced); an answer with ok = false or a request error
\* does not end the wait and only sets the last error; and the wait is Ready
\* only through a healthy probe.
ReadyOnHealthyProbe ==
    [][ /\ (wait.pc = "probe" /\ wait' # wait) =>
              LET outcome == Unwrap(wait'.last_probe)
              IN /\ wait'.timeout_ms = wait.timeout_ms
                 /\ Healthy(outcome) =>
                      /\ wait'.pc = "done"
                      /\ wait'.result = WaitOk(outcome.data)
                 /\ ~Healthy(outcome) =>
                      /\ wait'.pc = "sleep"
                      /\ wait'.result = None
                      /\ wait'.last_error = Some(ErrorOf(outcome))
        /\ (wait'.result # wait.result /\ Unwrap(wait'.result).ok) =>
              wait.pc = "probe" /\ Healthy(Unwrap(wait'.last_probe))
      ]_vars

\* the wait is Ready after probes failed for 500 ms or more, under a timeout
\* of 2000 ms; the error of the failed probes is still in last_error
ReadyOnHealthyProbe_Witness ==
    /\ wait.pc = "done"
    /\ wait.timeout_ms = 2000
    /\ wait.elapsed >= 500
    /\ Unwrap(wait.result).ok
    /\ Unwrap(wait.result).value = Unwrap(wait.last_probe).data
    /\ IsSome(wait.last_error)

HealthTimeoutClamped ==
    (wait.pc # "idle" /\ IsSome(wait.env)) =>
      LET value == Unwrap(wait.env)
          parsed == IF IsSome(value) THEN ParseU64(Trim(Unwrap(value))) ELSE None
      IN wait.timeout_ms =
           IF IsSome(parsed)
             THEN Max(Unwrap(parsed), MinHealthTimeoutMs)
             ELSE DefaultHealthTimeoutMs

\* the registry holds the handle of a process that is alive
HoldsLive(r) == IsSome(Reg(r).child) /\ Alive(Unwrap(Reg(r).child))

\* C14: when engine_start returns the failure of a readiness wait that timed
\* out, the system is stopped: neither the engine registry nor the daemon
\* registry holds a live process, and the engine registry is in the stopped
\* state, so that an info query that follows does not take the Orchestrator
\* branch.
TimedOutStartIsStopped ==
    (pc = "unlock" /\ ret.op = "engine_start" /\ ret.err = Some(TimedOutError))
      => /\ ~HoldsLive("engine")
         /\ ~HoldsLive("orchestrator")
         /\ engine = StoppedState("engine")

\* the registries engine_stop stops
StoppedByEngineStop == {"engine", "orchestrator", "openwork"}

OrchestratorStopStep ==
    \/ pc = "idle" /\ ret'.op = "engine_stop"
    \/ pc = "idle" /\ pc' = "es_spawn"
    \/ pc = "idle" /\ pc' = "exited"

\* C16: after every explicit stop of the orchestrator no auth snapshot is
\* left in the data directory.
AuthSnapshotCleared ==
    [][ OrchestratorStopStep => ~IsSome(auth_file') ]_vars

\* C17: what engine_info returns in Orchestrator mode: for the username and
\* for the password, the value of the engine registry when it has one,
\* otherwise the value of the auth snapshot, and nothing when there is
\* neither.
InfoCredentialsFallBack ==
    (pc = "unlock" /\ ret.op = "engine_info" /\ engine.runtime = "Orchestrator")
      => /\ ret.opencode_username =
               IF IsSome(engine.opencode_username) THEN engine.opencode_username
               ELSE IF IsSome(auth_file) THEN Unwrap(auth_file).opencode_username
               ELSE None
         /\ ret.opencode_password =
               IF IsSome(engine.opencode_password) THEN engine.opencode_password
               ELSE IF IsSome(auth_file) THEN Unwrap(auth_file).opencode_password
               ELSE None

\* engine_info has returned the credentials of the auth snapshot, the engine
\* registry having none
InfoCredentialsFallBack_Witness ==
    /\ pc = "unlock"
    /\ ret.op = "engine_info"
    /\ engine.runtime = "Orchestrator"
    /\ ~IsSome(engine.opencode_username)
    /\ ~IsSome(engine.opencode_password)
    /\ ret.opencode_username = Some("opencode")
    /\ IsSome(ret.opencode_password)

\* the password generated by the engine_start that spawned daemon p: Fresh
\* tags the session by the number of processes spawned before it, and the
\* daemon is the next process spawned
SessionPassword(p) == Some(p)

\* the application has been relaunched and has not started or stopped
\* anything since, while daemon p of the last start that returned Ok keeps
\* running and the auth snapshot that start wrote is in place
Reattached(p) ==
    /\ \A r \in Registries : Reg(r) = Default(r)
    /\ p \in started
    /\ procs[p].reg = "orchestrator"
    /\ Alive(p)
    /\ ~procs[p].attached
    /\ IsSome(auth_file)
    /\ Unwrap(auth_file).opencode_password = SessionPassword(p)

\* C18: an engine_info of the relaunched application, before any start or
\* stop, returns the username and the password that the Orchestrator start
\* of the daemon that is still running generated.
ReattachReportsCredentials ==
    \A p \in Pids :
      (pc = "unlock" /\ ret.op = "engine_info" /\ Reattached(p))
        => /\ ret.opencode_username = Some("opencode")
           /\ ret.opencode_password = SessionPassword(p)

\* a start of registry r returns the failure of its spawn in the step
SpawnFailsInStep(r) == ret'.op = StartOp(r) /\ ret'.err = Some(SpawnError)

\* the fields the claim names: all but the exited latch
Fields(state) == [state EXCEPT !.child_exited = FALSE]

\* C19 as stated: a start whose spawn fails leaves the registry as it was
\* before the start: no handle installed, and the runtime mode, the ports,
\* the URLs, the credentials and the output buffers unchanged.
FailedStartLeavesPreStart ==
    [][ \A r \in Registries :
          SpawnFailsInStep(r) => Fields(Reg(r)') = Fields(Reg(r)) ]_vars

\* C19 as the code has it: a start whose spawn fails returns the failure and
\* leaves the registry as its stop step left it: no handle, every field at
\* its default, the exited latch set; the engine registry carries the runtime
\* that was asked for.
FailedStartLeavesStopped ==
    [][ \A r \in Registries :
          SpawnFailsInStep(r) =>
            /\ ~ret'.ok
            /\ ~IsSome(Reg(r)'.child)
            /\ IF r = "engine"
                 THEN /\ Reg(r)'.runtime \in Runtimes
                      /\ [Reg(r)' EXCEPT !.runtime = "Direct"] = StoppedState(r)
                 ELSE Reg(r)' = StoppedState(r) ]_vars

\* a start of the engine has failed to spawn after an earlier start had
\* filled the registry: the session of that start is gone and the runtime
\* is the one asked for
FailedStartLeavesStopped_Witness ==
    /\ started # {}
    /\ ret.op = StartOp("engine")
    /\ ret.err = Some(SpawnError)
    /\ engine.runtime = "Orchestrator"
    /\ ~IsSome(engine.child)
    /\ ~IsSome(engine.port)
    /\ engine.child_exited

\* C20: the warm-up of a Direct-mode start ends in a failure exactly when
\* the exit of the engine process has been observed; otherwise the process
\* is not killed and its handle is installed, and the start then returns Ok
\* with running = true and the pid of that process.
WarmupOutcome ==
    [][ /\ (pc = "es_warmup" /\ pc' # "es_warmup") =>
              /\ (pc' = "unlock" /\ ~ret'.ok) <=> call.output_exited
              /\ call.output_exited => ret'.err = Some(ExitedError)
              /\ ~call.output_exited =>
                    /\ pc' = "ow_stop"
                    /\ engine'.child = call.child
                    /\ procs' = procs
        /\ (pc = "ow_spawn" /\ pc' = "unlock" /\ call.runtime = "Direct") =>
              /\ ret'.op = "engine_start"
              /\ ret'.ok
              /\ ret'.running
              /\ ret'.pid = call.child
              /\ engine'.child = call.child
      ]_vars

\* a Direct-mode start has returned Ok with running = true for a process
\* that was alive when the warm-up ended
WarmupOutcome_Witness ==
    /\ pc = "unlock"
    /\ ret.op = "engine_start"
    /\ call.runtime = "Direct"
    /\ ret.ok
    /\ ret.running
    /\ ret.pid = call.child
    /\ engine.child = call.child
    /\ Alive(Unwrap(call.child))

(***************************************************************************)
(* C21.  The relay server is spawned only after the engine start step has  *)
(* completed successfully, against that engine's port; a start whose       *)
(* engine step fails spawns no relay server.                               *)
(***************************************************************************)
\* this step spawns a relay server process
RelaySpawnedInStep ==
    /\ Len(procs') = Len(procs) + 1
    /\ procs'[Len(procs')].reg = "openwork"

\* the engine start step of the command in flight has completed: the engine
\* registry describes the session of this call
EngineStepCompleted ==
    /\ engine.runtime = call.runtime
    /\ engine.port = call.port
    /\ IsSome(engine.port)
    /\ engine.opencode_password = call.password
    /\ call.runtime = "Direct" => engine.child = call.child /\ IsSome(call.child)
    /\ call.runtime = "Orchestrator" => orchestrator.child = call.child

\* C21: (1) a relay server is spawned only by the relay step of a start whose
\* engine step has completed, with the URL of that engine's port; (2) the
\* relay step is entered only from a passed warm-up (Direct) or a ready wait
\* (Orchestrator); (3) a start that returns a failure never entered its relay
\* step, so it spawned no relay server.
RelayAfterEngine ==
    [][/\ RelaySpawnedInStep =>
            /\ pc = "ow_spawn"
            /\ EngineStepCompleted
            /\ procs'[Len(procs')].opencode
                 = Some(<<"lan", Unwrap(engine.port)>>)
       /\ (pc # "ow_stop" /\ pc' = "ow_stop") =>
            /\ EngineStepCompleted'
            /\ \/ pc = "es_warmup" /\ call.runtime = "Direct"
                    /\ ~call.output_exited
               \/ pc = "es_wait" /\ call.runtime = "Orchestrator"
                    /\ Alive(Unwrap(call.child))
       /\ (pc' = "unlock" /\ pc # "unlock" /\ ret'.op = "engine_start"
             /\ ~ret'.ok) =>
            /\ pc \in {"idle", "es_spawn", "es_warmup", "es_wait"}
            /\ ~RelaySpawnedInStep]_vars

\* an Orchestrator start has returned Ok with its relay server spawned
\* against the engine's port
RelayAfterEngine_Witness ==
    /\ pc = "unlock"
    /\ ret.op = "engine_start"
    /\ ret.ok
    /\ call.runtime = "Orchestrator"
    /\ IsSome(openwork.child)
    /\ procs[Unwrap(openwork.child)].opencode = Some(<<"lan", Unwrap(engine.port)>>)

Min(a, b) == IF a <= b THEN a ELSE b

\* the part of a derived name after the prefix
NameSuffix(name) == SubSeq(name, Len(ContainerNamePrefix) + 1, Len(name))

\* C23: the name starts with the prefix; what follows has as many characters
\* as the run id up to the limit (exactly the limit for a run id that long),
\* all of them in the allowed set, the i-th being the i-th character of the
\* run id or '-' in its place.  The name is a function of the run id alone.
ContainerNameDerived ==
    task.pc = "derived" =>
      LET suffix == NameSuffix(task.name)
      IN /\ Len(task.name) >= Len(ContainerNamePrefix)
         /\ SubSeq(task.name, 1, Len(ContainerNamePrefix)) = ContainerNamePrefix
         /\ Len(suffix) = Min(CharCount(task.run_id), NameCap)
         /\ \A i \in 1..Len(suffix) :
              /\ IsNameChar(suffix[i])
              /\ suffix[i] = IF IsNameChar(task.run_id[i])
                               THEN task.run_id[i] ELSE "-"

\* a run id longer than the limit with characters outside the set, one of
\* them outside ASCII, has been named
ContainerNameDerived_Witness ==
    /\ task.pc = "derived"
    /\ task.run_id = <<"a", "/", "w", " ", "a">>
    /\ NameSuffix(task.name) = <<"a", "-", "-">>

(***************************************************************************)
(* C24.  The derived name equals the name the external orchestrator        *)
(* computes with its own rule.                                             *)
(***************************************************************************)
\* C24: for every run id the derived name is the name given by
\* `openwork-orchestrator-` + runId.replace(/[^a-zA-Z0-9_.-]+/g, "-").slice(0, 24)
ContainerNameMatchesOrchestrator ==
    task.pc = "derived" => task.name = OrchestratorContainerName(task.run_id)

(***************************************************************************)
(* C25.  Container-runtime command resolution: the candidates are tried in *)
(* order, a failure or timeout of one falls through to the next, and an    *)
(* error is returned only when every candidate and the bare name failed.   *)
(***************************************************************************)
\* the places a candidate can come from, in the order of the search
DockerSources(env) ==
    OverridePaths(env.overrides) \o DockerIn(env.path)
      \o DockerIn(env.path_helper) \o FixedDockerLocations

\* the first place in the search order that names the path
FirstSource(env, path) ==
    CHOOSE i \in 1..Len(DockerSources(env)) :
      /\ DockerSources(env)[i] = path
      /\ \A j \in 1..(i - 1) : DockerSources(env)[j] # path

\* C25: (1) the programs tried are the executable files the sources name,
\* each once, in the order of the sources, followed by the bare name;
\* (2) a result is that of the first program whose invocation neither failed
\* to spawn nor timed out: every program before it was tried and failed;
\* (3) an error is returned only after every program, the bare name included,
\* has failed, and it lists the failure of each in order.
DockerResolution ==
    (task.pc \in {"docker", "docker_done"}) =>
      LET env == task.env
          tried == task.tried
          n == Len(tried)
          named == {DockerSources(env)[i] : i \in 1..Len(DockerSources(env))}
      IN /\ n >= 1
         /\ tried[n] = BareDocker
         /\ {tried[i] : i \in 1..(n - 1)} = named \cap env.files
         /\ \A i, j \in 1..(n - 1) :
              i < j => FirstSource(env, tried[i]) < FirstSource(env, tried[j])
         /\ \A i \in 1..Len(task.errors) :
              /\ task.outcomes[i].kind \in {"spawn_failed", "timed_out"}
              /\ task.errors[i] = <<task.outcomes[i].kind, tried[i]>>
         /\ (task.pc = "docker_done" /\ Unwrap(task.result).ok) =>
              LET k == Len(task.outcomes)
              IN /\ k = Len(task.errors) + 1
                 /\ task.outcomes[k].kind = "ok"
                 /\ Unwrap(task.result).program = tried[k]
                 /\ Unwrap(task.result).status = task.outcomes[k].status
         /\ (task.pc = "docker_done" /\ ~Unwrap(task.result).ok) =>
              /\ Len(task.outcomes) = n
              /\ Len(task.errors) = n
              /\ Unwrap(task.result).errors = task.errors
              /\ task.errors[n][2] = BareDocker

\* the override timed out, a candidate from PATH failed to spawn, and the
\* bare name answered
DockerResolution_Witness ==
    /\ task.pc = "docker_done"
    /\ Unwrap(task.result).ok
    /\ Unwrap(task.result).program = BareDocker
    /\ Len(task.tried) = 3
    /\ task.tried[1] = OverridePath
    /\ task.outcomes[1].kind = "timed_out"
    /\ task.outcomes[2].kind = "spawn_failed"

(***************************************************************************)
(* C26.  Bulk container cleanup: every listed container with a known       *)
(* prefix is attempted exactly once whatever happens to the others, ends   *)
(* in exactly one of the removed and errors lists, and no other container  *)
(* is removed.                                                             *)
(***************************************************************************)
\* the number of positions of a sequence that hold x
Count(seq, x) == Cardinality({i \in 1..Len(seq) : seq[i] = x})

\* the names the errors list reports
ErrorNames(errors) == [i \in 1..Len(errors) |-> errors[i][1]]

\* the listed names that have a known prefix
ListedManaged(lines) ==
    {name \in {Trim(lines[i]) : i \in 1..Len(lines)} :
       \E prefix \in ManagedPrefixes : StartsWith(name, prefix)}

\* C26: once the command is over, whatever the removals answered, every
\* listed name with a known prefix has been attempted exactly once and is in
\* exactly one of `removed` and `errors`, and nothing else was attempted.
CleanupAccountsForAll ==
    (task.pc \in {"cleanup_done", "cleanup_panicked"}) =>
      /\ \A name \in ListedManaged(task.listed) :
           /\ Count(task.attempted, name) = 1
           /\ Count(task.removed, name) + Count(ErrorNames(task.errors), name) = 1
      /\ \A i \in 1..Len(task.attempted) :
           task.attempted[i] \in ListedManaged(task.listed)
      /\ \A i \in 1..Len(task.removed) :
           task.removed[i] \in ListedManaged(task.listed)

(***************************************************************************)
(* C27.  Sandbox progress stream: after the init event, a call that        *)
(* returns failure has emitted a final error event and a call that returns *)
(* success a final openwork.healthy event.                                 *)
(***************************************************************************)
\* C27: when a create-detached-sandbox call that emitted init returns, the
\* last event it emitted is `error` if it returns Err and `openwork.healthy`
\* if it returns Ok.
SandboxFinalEvent ==
    (task.pc = "sb_done" /\ task.events.first = Some("init")) =>
      IF Unwrap(task.result).ok
        THEN task.events.last = Some("openwork.healthy")
        ELSE task.events.last = Some("error")

(***************************************************************************)
(* C28.  Runtime-options sanitization removes exactly the DNS-result-order *)
(* flags whose value is not ipv4first or verbatim.                         *)
(***************************************************************************)
\* the positions at which a DNS-result-order flag starts, a flag of the
\* two-word form taking the next token as its value
RECURSIVE DnsFlagStarts(_, _)
DnsFlagStarts(tokens, i) ==
    IF i > Len(tokens) THEN {}
    ELSE IF IsSome(strip_prefix_eq(tokens[i]))
      THEN {i} \cup DnsFlagStarts(tokens, i + 1)
    ELSE IF tokens[i] = <<DnsFlag>>
      THEN {i} \cup DnsFlagStarts(tokens, i + 2)
    ELSE DnsFlagStarts(tokens, i + 1)

\* the value of the flag that starts at i, None when there is none
DnsFlagValue(tokens, i) ==
    IF tokens[i] = <<DnsFlag>>
      THEN IF i + 1 <= Len(tokens) THEN Some(tokens[i + 1]) ELSE None
      ELSE strip_prefix_eq(tokens[i])

\* the positions taken by the flags whose value is not ipv4first or verbatim
InvalidDnsFlagPositions(tokens) ==
    UNION {IF tokens[i] = <<DnsFlag>> THEN {i, i + 1} ELSE {i} :
             i \in {j \in DnsFlagStarts(tokens, 1) :
                      DnsFlagValue(tokens, j) \notin
                        {Some(<<"ipv4first">>), Some(<<"verbatim">>)}}}

RECURSIVE WithoutPositions(_, _, _)
WithoutPositions(tokens, i, drop) ==
    IF i > Len(tokens) THEN <<>>
    ELSE (IF i \in drop THEN <<>> ELSE <<tokens[i]>>)
           \o WithoutPositions(tokens, i + 1, drop)

\* C28: for every runtime-options string, the sanitized string is made of the
\* tokens of the input, in order, without the DNS-result-order flags (of
\* either form) whose value is not ipv4first or verbatim, and `unchanged`
\* (None) is reported exactly when there is no such flag.
SanitizeRemovesInvalidFlags ==
    task.pc = "sanitized" =>
      LET tokens == split_whitespace(task.raw)
          drop == InvalidDnsFlagPositions(tokens)
      IN  task.result =
            IF drop = {} THEN None
            ELSE Some(JoinSpace(WithoutPositions(tokens, 1, drop)))

(***************************************************************************)
(* C29.  Every child process is spawned with the DNS-resolution-order      *)
(* override in its environment.                                            *)
(***************************************************************************)
SpawnedCommands ==
    IF task.pc \in {"spawn_engine", "spawn_relay", "spawn_done"}
      THEN {task.commands[i] : i \in 1..Len(task.commands)}
      ELSE {}

\* C29: every child process spawned (engine, orchestrator daemon, relay,
\* router, detached sandbox host) has BUN_CONFIG_DNS_RESULT_ORDER set to the
\* safe value in its environment.
DnsOverrideOnEveryChild ==
    \A command \in SpawnedCommands :
      ChildEnv(task.parent, command, "BUN_CONFIG_DNS_RESULT_ORDER")
        = Some(SAFE_DNS_RESULT_ORDER)

(***************************************************************************)
(* C30.  The engine credentials of a start reach the engine and the relay  *)
(* through environment variables and are in no argument list.              *)
(***************************************************************************)
InArgs(command, value) == \E i \in 1..Len(command.args) : command.args[i] = value

\* C30: for every start with generated credentials, the engine process has
\* them in OPENCODE_SERVER_USERNAME / OPENCODE_SERVER_PASSWORD, the relay
\* process in DOWHAT_OPENCODE_USERNAME / DOWHAT_OPENCODE_PASSWORD, and neither
\* the username nor the password is an argument of any process of the start.
CredentialsOnlyInEnv ==
    (task.pc \in {"spawn_relay", "spawn_done"}
       /\ task.runtime \in {"Direct", "Orchestrator"}
       /\ IsSome(task.password)) =>
      \A command \in SpawnedCommands :
        /\ ~InArgs(command, Unwrap(task.username))
        /\ ~InArgs(command, Unwrap(task.password))
        /\ command.site = "engine" =>
             /\ command.env["OPENCODE_SERVER_USERNAME"] = task.username
             /\ command.env["OPENCODE_SERVER_PASSWORD"] = task.password
        /\ command.site = "relay" =>
             /\ command.env["DOWHAT_OPENCODE_USERNAME"] = task.username
             /\ command.env["DOWHAT_OPENCODE_PASSWORD"] = task.password

(***************************************************************************)
(* C31.  Engine binary resolution priority: override, bundled sidecar when *)
(* preferred, PATH, well-known locations.                                  *)
(***************************************************************************)
\* the first path of the list that names an existing file
FirstExisting(list, files) ==
    IF \E i \in 1..Len(list) : list[i] \in files
      THEN Some(list[CHOOSE i \in 1..Len(list) :
                       /\ list[i] \in files
                       /\ \A j \in 1..(i - 1) : list[j] \notin files])
      ELSE None

\* the path the priority rule picks when the bundled sidecar is looked for in
\* the locations `sidecars`
PriorityChoice(env, sidecars) ==
    LET named == IF IsSome(env.override) THEN Trim(Unwrap(env.override)) ELSE <<>>
        on_path == [i \in 1..Len(env.path) |-> env.path[i] \o OpencodeName]
    IN  IF named \in env.files THEN Some(named)
        ELSE IF env.prefer_sidecar /\ IsSome(FirstExisting(sidecars, env.files))
          THEN FirstExisting(sidecars, env.files)
        ELSE IF IsSome(FirstExisting(on_path, env.files))
          THEN FirstExisting(on_path, env.files)
        ELSE FirstExisting(candidate_opencode_paths(env.home), env.files)

\* the bundled-sidecar locations the claim names: the current binary
\* directory, then the resource directories
ClaimedSidecars(env) ==
    SelectSeq(sidecar_candidates(env.resource_dir, env.current_bin_dir),
              LAMBDA c : c[1] # "src-tauri/sidecars")

\* C31 as stated: the path resolved is the existing override, else (sidecar
\* preferred) the first existing sidecar of the current binary directory and
\* the resource directories, else the first match on PATH, else the first
\* existing well-known location.
EngineResolutionPriority ==
    task.pc = "resolved" =>
      task.result.path = PriorityChoice(task.env, ClaimedSidecars(task.env))

\* C31 amended: the same priority, the bundled sidecar being looked for in the
\* current binary directory, the resource directories and then the relative
\* directory src-tauri/sidecars.
EngineResolutionPriorityWithDevSidecar ==
    task.pc = "resolved" =>
      task.result.path =
        PriorityChoice(task.env,
                       sidecar_candidates(task.env.resource_dir,
                                          task.env.current_bin_dir))

\* the override names a missing file, the sidecar is preferred and found in
\* the resource directory, and PATH has a match too
EngineResolutionPriorityWithDevSidecar_Witness ==
    /\ task.pc = "resolved"
    /\ task.env.override = Some(OverrideBin)
    /\ OverrideBin \notin task.env.files
    /\ task.env.prefer_sidecar
    /\ IsSome(resolve_in_path(task.env))
    /\ task.result.path = Some(ResourceDir \o <<"/sidecars">> \o OpencodeName)

(***************************************************************************)
(* C32.  An append leaves the last min(n, N) characters of old buffer plus *)
(* chunk, lengths counted in characters.                                   *)
(***************************************************************************)
\* the last k characters of a text
LastChars(s, k) == SubSeq(s, Len(s) - Min(Len(s), k) + 1, Len(s))

\* C32: after an append the buffer holds exactly the last min(n, N)
\* characters of the old buffer followed by the chunk, n being the number of
\* characters of that text and N the cap, whatever the widths of the
\* characters in bytes.
AppendKeepsLastChars ==
    task.pc \in {"appended", "append_panicked"} =>
      task.result =
        Some(LastChars(UnwrapOrDefault(task.buf) \o task.chunk, OutputCap))

(***************************************************************************)
(* C33.  Single writer: between a start and the next stop only the         *)
(* draining task of the installed process writes the output buffers.       *)
(***************************************************************************)
\* the step removes the first event of the channel of process p: an
\* iteration of the draining task of p
DrainStepOf(p) ==
    /\ p \in Pids
    /\ procs[p].chan # <<>>
    /\ procs'[p].chan = Tail(procs[p].chan)

\* C33: a step that changes an output buffer of a registry either resets both
\* buffers (the reset of a start or a stop) or is an iteration of the
\* draining task of the process the registry holds, which is the process its
\* last start spawned.
SingleWriter ==
    [][\A r \in Registries :
         (\/ Reg(r)'.last_stdout # Reg(r).last_stdout
          \/ Reg(r)'.last_stderr # Reg(r).last_stderr)
           => \/ /\ Reg(r)'.last_stdout = None
                 /\ Reg(r)'.last_stderr = None
              \/ \E p \in Pids :
                   /\ Reg(r).child = Some(p)
                   /\ hist[r].pid = Some(p)
                   /\ procs[p].reg = r
                   /\ DrainStepOf(p)]_vars

(***************************************************************************)
(* C34.  No registry lock is held across a blocking step.                  *)
(***************************************************************************)
\* the positions of the main thread at which the next step of the command
\* blocks: the probe of the engine binary and the spawn (es_spawn), the
\* warm-up wait with its sleeps (es_warmup), the health requests to the
\* daemon (es_wait), the spawn of the relay server (ow_spawn) and of the
\* router (rt_spawn)
BlockingPositions == {"es_spawn", "es_warmup", "es_wait", "ow_spawn", "rt_spawn"}

\* C34: while a command is at a blocking step, the main thread holds no
\* registry lock.
NoLockAcrossBlocking == pc \in BlockingPositions => held = {}

(***************************************************************************)
(* C35.  Ordering inside engine_start: ports, credentials, spawns.         *)
(***************************************************************************)
\* the position of a step in the order of the start, 0 when it has not
\* happened
PositionOf(step) ==
    IF \E i \in 1..Len(task.order) : task.order[i] = step
      THEN CHOOSE i \in 1..Len(task.order) : task.order[i] = step
      ELSE 0

StartSteps(kind) ==
    {step \in {"port engine", "port daemon", "port relay", "spawn engine",
               "spawn daemon", "spawn relay"} :
       /\ PositionOf(step) > 0
       /\ (kind = "port") = (step \in {"port engine", "port daemon", "port relay"})}

InEngineStart ==
    /\ task.pc \in {"spawn_engine", "spawn_relay", "spawn_done"}
    /\ task.runtime \in {"Direct", "Orchestrator"}

\* C35 as stated: in every engine_start the credentials are generated after
\* every port allocation of the session and before every spawn.
CredentialsAfterEveryPort ==
    InEngineStart =>
      /\ \A step \in StartSteps("port") :
           PositionOf(step) < PositionOf("credentials")
      /\ \A step \in StartSteps("spawn") :
           PositionOf("credentials") < PositionOf(step)

\* the process a spawn step started
CommandOf(step) ==
    CHOOSE command \in SpawnedCommands :
      step = CASE command.site = "engine" -> "spawn engine"
               [] command.site = "daemon" -> "spawn daemon"
               [] command.site = "relay" -> "spawn relay"
               [] OTHER -> "none"

\* whether the command carries the credentials of the session
HasCredentials(command) ==
    CASE command.site = "engine" ->
           /\ command.env["OPENCODE_SERVER_USERNAME"] = task.username
           /\ command.env["OPENCODE_SERVER_PASSWORD"] = task.password
      [] command.site = "relay" ->
           /\ command.env["DOWHAT_OPENCODE_USERNAME"] = task.username
           /\ command.env["DOWHAT_OPENCODE_PASSWORD"] = task.password
      [] command.site = "daemon" ->
           IsSome(task.password) =>
             /\ InArgs(command, Unwrap(task.username))
             /\ InArgs(command, Unwrap(task.password))
      [] OTHER -> FALSE

\* C35 amended: the credentials are generated after the engine port has been
\* allocated and before every spawn; the daemon port and the relay port are
\* allocated after the credentials, each before the spawn of the process
\* that listens on it; every spawned process carries the credentials.
CredentialsBeforeEverySpawn ==
    InEngineStart =>
      /\ 0 < PositionOf("port engine")
      /\ PositionOf("port engine") < PositionOf("credentials")
      /\ \A step \in StartSteps("spawn") :
           /\ PositionOf("credentials") < PositionOf(step)
           /\ HasCredentials(CommandOf(step))
      /\ \A site \in {"daemon", "relay"} :
           PositionOf("spawn " \o site) > 0 =>
             /\ 0 < PositionOf("port " \o site)
             /\ PositionOf("port " \o site) < PositionOf("spawn " \o site)
      /\ \A site \in {"daemon", "relay"} :
           PositionOf("port " \o site) > 0 =>
             PositionOf("credentials") < PositionOf("port " \o site)

\* an Orchestrator start that spawned the daemon and the relay server
CredentialsBeforeEverySpawn_Witness ==
    /\ InEngineStart
    /\ task.pc = "spawn_done"
    /\ IsSome(task.password)
    /\ PositionOf("spawn daemon") > 0
    /\ PositionOf("spawn relay") > 0

(***************************************************************************)
(* C36.  The container-runtime command with a timeout.                     *)
(***************************************************************************)
\* C36: whenever the function returns after it spawned the command both
\* reader threads have been joined and the command has been reaped, a
\* timeout error only after the kill; and every call returns.
TimeoutJoinsAndReturns ==
    /\ [](task.pc = "returned" /\ task.child # "none" =>
            /\ task.joined = Streams
            /\ task.child = "reaped")
    /\ (task.pc = "poll" ~> task.pc = "returned")

(***************************************************************************)
(* C37.  The two probes of the readiness wait.                             *)
(***************************************************************************)
InTimers == task.pc \in {"tm_check", "tm_container", "tm_health", "tm_sleep", "tm_done"}

\* C37: a readiness probe starts one sleep after the end of the one before
\* it, however long the container inspection took; a container inspection
\* starts within one sleep of the end of its interval, however long the
\* readiness probes took.
ProbesOnIndependentTimers ==
    InTimers =>
      /\ IsSome(task.health_gap) => Unwrap(task.health_gap) <= SandboxSleepMs
      /\ IsSome(task.inspect_gap) =>
           Unwrap(task.inspect_gap) <= ContainerCheckIntervalMs + SandboxSleepMs

(***************************************************************************)
(* C38.  Events of a replaced process.                                     *)
(***************************************************************************)
\* C38: the exited latch of a registry is set over a handle only if the
\* process of the handle is no longer alive: an event of a process that a
\* later start replaced does not latch the exit of the new process, so
\* snapshot neither reports it as not running nor discards its handle.
ReplacedProcessIgnored ==
    \A r \in Registries : \A p \in Pids :
      (Reg(r).child = Some(p) /\ Reg(r).child_exited) => ~Alive(p)

(***************************************************************************)
(* C39.  Deadlock freedom and the order of the locks.                      *)
(***************************************************************************)
\* the thread t waits for: the holder of the mutex its blocking lock needs
WaitsFor(t) ==
    IF /\ t \in LockThreads
       /\ LockState.prog[t] # <<>>
       /\ Head(LockState.prog[t])[1] = "lock"
      THEN OwnerOf(Head(LockState.prog[t])[2])
      ELSE 0

\* no thread waits, directly or through others, for itself
NoWaitCycle ==
    \A t \in LockThreads :
      /\ WaitsFor(t) # t
      /\ WaitsFor(WaitsFor(t)) # t
      /\ WaitsFor(WaitsFor(WaitsFor(t))) # t

LockRank(r) ==
    CASE r = "engine" -> 1
      [] r = "orchestrator" -> 2
      [] r = "openwork" -> 3
      [] OTHER -> 4

\* the locks a thread holds were taken in the order engine, daemon, relay
\* server; the router's lock is never held with another
InLockOrder(t) ==
    LET stack == LockState.stack[t]
    IN /\ \A i, j \in 1..Len(stack) :
            i < j => LockRank(stack[i]) < LockRank(stack[j])
       /\ "router" \in HeldBy(t) => Len(stack) = 1

\* the blocking locks in the programs of the draining tasks
DrainBlockingLocks ==
    {Head(LockState.prog[t])[2] : t \in {d \in DrainThreads :
        /\ LockState.prog[d] # <<>>
        /\ Head(LockState.prog[d])[1] = "lock"}}

\* C39 as stated: no wait cycle, the fixed order, and a draining task never
\* takes a blocking lock.
DeadlockFreeTryLockOnly ==
    /\ NoWaitCycle
    /\ \A t \in CommandThreads : InLockOrder(t)
    /\ DrainBlockingLocks = {}

\* C39 amended: no wait cycle, the fixed order, a draining task takes a
\* registry lock only with try_lock, and while it waits for or holds the
\* warm-up buffer's lock it holds no other lock.
DeadlockFreeLockOrder ==
    /\ NoWaitCycle
    /\ \A t \in CommandThreads : InLockOrder(t)
    /\ DrainBlockingLocks \subseteq {"output"}
    /\ \A t \in DrainThreads :
         /\ Len(LockState.stack[t]) <= 1
         /\ WaitsFor(t) # 0 => HeldBy(t) = {}

\* a command holds the engine lock and waits for a lock the command of the
\* other thread holds, while a draining task is at its try_lock
DeadlockFreeLockOrder_Witness ==
    /\ task.pc = "locks"
    /\ \E t \in CommandThreads :
         /\ HeldBy(t) = {"engine"}
         /\ WaitsFor(t) \in CommandThreads \ {t}
    /\ \E d \in DrainThreads :
         /\ task.prog[d] # <<>>
         /\ Head(task.prog[d])[1] = "try"

(***************************************************************************)
(* C40.  The outcome of a sandbox start and its last readiness probe.      *)
(***************************************************************************)
\* C40: when a create-detached-sandbox call returns after it emitted
\* `openwork.healthy`, it returns Ok and has emitted no `error` event; it
\* returns the failure of the timeout only if no readiness probe succeeded.
SandboxOutcomeAgrees ==
    (task.pc = "sb_done" /\ task.events.first = Some("init")) =>
      /\ "openwork.healthy" \in task.events.stages =>
           /\ Unwrap(task.result).ok
           /\ "error" \notin task.events.stages
      /\ (task.expired /\ ~Unwrap(task.result).ok) =>
           "openwork.healthy" \notin task.events.stages

====
